---- MODULE Spec2Model ----
(***************************************************************************)
(* A model of updog, a static columnar index answering count queries.      *)
(*                                                                         *)
(* 64-bit words (value codes, expression fingerprints) are sets of bit     *)
(* positions 0..63: xor is the symmetric difference and a rotation moves   *)
(* the positions, so the arithmetic of query.go is exact.  Bitmaps         *)
(* (roaring.Bitmap) are sets of row ids.  Strings that the code compares   *)
(* with < (column values) are sequences of bytes.                          *)
(***************************************************************************)
EXTENDS Integers, Sequences, FiniteSets, TLC

VARIABLES
    cache,      \* the LRUCache / nullCache of the index (part_000)
    lastOp,     \* the last call made and what it returned
    xxhZero,    \* the (column, value) pair whose xxhash sum is 0, if any
    rows,       \* the rows handed to AddRow so far, in row id order
    w,          \* IndexWriter: schema, values, nextRowID
    bw,         \* BigIndexWriter: schema, scratch store, nextRowID
    db,         \* the bbolt database the index is written to
    wr,         \* the position of a running WriteToBoltDatabase / Flush
    idx,        \* the opened Index
    thr,        \* the threads running Execute concurrently
    mtx,        \* the holders of the writers' mutexes (0: unlocked)
    closes,     \* the number of calls of bbolt.DB.Close on the index's database
    drv         \* the updogDriver: its connection cache, connections and indexes

vars == <<cache, lastOp, xxhZero, drv, rows, w, bw, db, wr, idx, thr, mtx, closes>>

----------------------------------------------------------------------------
(* Bounds of the model. *)

\* rows added to one index
MaxRows == 2
\* children of one And / Or node
MaxKids == 2
\* threads running Execute at the same time
MaxThreads == 2

----------------------------------------------------------------------------
(* 64-bit words *)

Bits == 0..63

Pow2(n) == 2 ^ n

\* the word of a natural number below 2^31
NatBits(n) == {j \in 0..30 : (n \div Pow2(j)) % 2 = 1}

\* the word written as 16 hexadecimal digits, most significant first
Word(hex) == UNION {{4 * (16 - i) + j : j \in {b \in 0..3 : (hex[i] \div Pow2(b)) % 2 = 1}} : i \in 1..16}

\* bits.RotateLeft64(x, 1)
rotl1(x) == {(b + 1) % 64 : b \in x}

\* x ^ y
xor(x, y) == (x \ y) \cup (y \ x)

Max(S) == CHOOSE m \in S : \A n \in S : n <= m

\* x < y as unsigned 64-bit numbers (the order of big-endian keys)
WordLess(x, y) == x # y /\ Max(xor(x, y)) \in y

maskNot == Word(<<8, 7, 10, 9, 12, 13, 1, 4, 12, 10, 14, 11, 5, 0, 14, 11>>)
maskAnd == Word(<<15, 9, 15, 1, 15, 5, 10, 13, 12, 11, 6, 7, 10, 0, 7, 7>>)
maskOr == Word(<<11, 15, 11, 8, 5, 10, 9, 9, 11, 0, 3, 14, 7, 8, 14, 7>>)

----------------------------------------------------------------------------
(* Strings *)

\* a < b for Go strings: byte-wise lexicographic
RECURSIVE StrLess(_, _)
StrLess(a, b) ==
    IF b = <<>> THEN FALSE
    ELSE IF a = <<>> THEN TRUE
    ELSE IF a[1] # b[1] THEN a[1] < b[1]
    ELSE StrLess(Tail(a), Tail(b))

----------------------------------------------------------------------------
(* Bitmaps *)

\* roaring.Bitmap.GetSizeInBytes of a bitmap of row ids below 65536 held in
\* one array container: an 8-byte header, and for a non-empty bitmap the
\* container's key/cardinality and offset (8 bytes) and 2 bytes per row id
GetSizeInBytes(bm) == IF bm = {} THEN 8 ELSE 16 + 2 * Cardinality(bm)

\* a Flip that inverts the bit hi as well
FlipInclusive(bm, lo, hi) == (bm \ (lo..hi)) \cup ((lo..hi) \ bm)

\* roaring.Flip(bm, lo, hi): the bits of [lo, hi) inverted
Flip(bm, lo, hi) == (bm \ (lo..(hi - 1))) \cup ((lo..(hi - 1)) \ bm)

----------------------------------------------------------------------------
(* LRUCache (part_000) *)

EmptyMap == [k \in {} |-> 0]

\* unsafe.Sizeof(lruCacheItem{}): key, size, bm
lruCacheItemSize == 24
\* unsafe.Sizeof(list.Element{}): next, prev, list, Value
listElementSize == 40

nullCache == [kind |-> "null", entries |-> EmptyMap, lruList |-> <<>>, curSize |-> 0, maxSize |-> 0]

NewLRUCache(maxSizeBytes) ==
    [kind |-> "lru", entries |-> EmptyMap, lruList |-> <<>>, curSize |-> 0, maxSize |-> maxSizeBytes]

SeqRemoveAt(s, i) == [j \in 1..(Len(s) - 1) |-> IF j < i THEN s[j] ELSE s[j + 1]]

\* a MoveToFront that leaves the list as it is
MoveToFrontNever(l, key) == l

\* list.MoveToFront(elem): nothing happens when elem is not on the list
MoveToFront(l, key) ==
    IF \E i \in 1..Len(l) : l[i].key = key
    THEN LET i == CHOOSE j \in 1..Len(l) : l[j].key = key
         IN <<l[i]>> \o SeqRemoveAt(l, i)
    ELSE l

MapPut(m, k, v) == [x \in DOMAIN m \cup {k} |-> IF x = k THEN v ELSE m[x]]

\* a delete that leaves the map as it is
MapDeleteNothing(m, k) == m

\* delete(m, k)
MapDelete(m, k) == [x \in DOMAIN m \ {k} |-> m[x]]

\* a Get that finds nothing
LRUGetMiss(c, key) == [cache |-> c, bm |-> {}, found |-> FALSE]

\* LRUCache.Get
LRUGet(c, key) ==
    IF key \notin DOMAIN c.entries
    THEN [cache |-> c, bm |-> {}, found |-> FALSE]
    ELSE [cache |-> [c EXCEPT !.lruList = MoveToFront(c.lruList, key)],
          bm |-> c.entries[key].bm, found |-> TRUE]

\* the eviction loop as a single if: at most one entry is evicted
LRUEvictOnce(c) ==
    IF c.curSize > c.maxSize /\ Len(c.lruList) > 0
    THEN LET item == c.lruList[Len(c.lruList)]
         IN [c EXCEPT
                !.lruList = SubSeq(c.lruList, 1, Len(c.lruList) - 1),
                !.curSize = c.curSize - (item.size + lruCacheItemSize + listElementSize),
                !.entries = MapDelete(c.entries, item.key)]
    ELSE c

\* the eviction loop stopping at the last entry (Len() > 1)
RECURSIVE LRUEvictKeepLast(_)
LRUEvictKeepLast(c) ==
    IF c.curSize > c.maxSize /\ Len(c.lruList) > 1
    THEN LET item == c.lruList[Len(c.lruList)]
         IN LRUEvictKeepLast([c EXCEPT
                !.lruList = SubSeq(c.lruList, 1, Len(c.lruList) - 1),
                !.curSize = c.curSize - (item.size + lruCacheItemSize + listElementSize),
                !.entries = MapDelete(c.entries, item.key)])
    ELSE c

\* the eviction loop of LRUCache.Put
RECURSIVE LRUEvict(_)
LRUEvict(c) ==
    IF c.curSize > c.maxSize /\ Len(c.lruList) > 0
    THEN LET item == c.lruList[Len(c.lruList)]
         IN LRUEvict([c EXCEPT
                !.lruList = SubSeq(c.lruList, 1, Len(c.lruList) - 1),
                !.curSize = c.curSize - (item.size + lruCacheItemSize + listElementSize),
                !.entries = MapDelete(c.entries, item.key)])
    ELSE c

\* LRUCache.Put
LRUPut(c, key, bm) ==
    IF key \in DOMAIN c.entries
    THEN LET item == [c.entries[key] EXCEPT !.bm = bm]
             l == MoveToFront(c.lruList, key)
         IN [c EXCEPT
                !.lruList = [i \in 1..Len(l) |-> IF l[i].key = key THEN item ELSE l[i]],
                !.entries = MapPut(c.entries, key, item)]
    ELSE LET item == [key |-> key, size |-> GetSizeInBytes(bm), bm |-> bm]
         IN LRUEvict([c EXCEPT
                !.lruList = <<item>> \o c.lruList,
                !.entries = MapPut(c.entries, key, item),
                !.curSize = c.curSize + item.size + lruCacheItemSize + listElementSize])

\* Cache.Get / Cache.Put of the index's cache: nullCache or LRUCache
CacheGet(c, key) ==
    IF c.kind = "null" THEN [cache |-> c, bm |-> {}, found |-> FALSE] ELSE LRUGet(c, key)

CachePut(c, key, bm) == IF c.kind = "null" THEN c ELSE LRUPut(c, key, bm)

----------------------------------------------------------------------------
(* Value codes (part_008: getValueIndex) *)

\* the column names of the model; "z" is never a column of a row
ColNames == <<"a", "b", "c", "d", "z">>

\* the column name "a", a zero byte, "b": a Go string may hold any byte
NulCol == "a_0_b"

\* []byte(k) of a column name
ColBytes(k) ==
    CASE k = "a" -> <<97>>
      [] k = "b" -> <<98>>
      [] k = "c" -> <<99>>
      [] k = "d" -> <<100>>
      [] k = "z" -> <<122>>
      [] k = NulCol -> <<97, 0, 98>>

\* append(append([]byte(k), 0), []byte(v)...)
KeyBytes(k, v) == ColBytes(k) \o <<0>> \o v

\* xxhash.Sum64(k || 0 || v).  The hash is a library function; all the code
\* relies on is that it is a fixed function of the bytes handed to it.  The
\* model takes one without collisions (the bytes in bits 0..55, their number
\* in bits 56..) and lets the bytes of one pair, xxhZero, hash to 0.
Sum64(k, v) ==
    LET bs == KeyBytes(k, v)
    IN IF xxhZero # <<>> /\ bs = KeyBytes(xxhZero[1], xxhZero[2]) THEN {}
       ELSE {56 + j : j \in NatBits(Len(bs))}
                \cup UNION {{8 * (i - 1) + j : j \in NatBits(bs[i])} : i \in 1..Len(bs)}

getValueIndex(k, v) == Sum64(k, v)

----------------------------------------------------------------------------
(* Schema (part_003) *)

\* schema{Columns: map[string]*column{Values: map[string]uint64}}
EmptySchema == EmptyMap

\* schema.add
SchemaAdd(sch, k, v) ==
    LET col == IF k \in DOMAIN sch THEN sch[k] ELSE EmptyMap
        val == IF v \in DOMAIN col THEN col[v] ELSE getValueIndex(k, v)
    IN [sch |-> MapPut(sch, k, MapPut(col, v, val)), val |-> val]

----------------------------------------------------------------------------
(* Serialized forms *)

\* binary.BigEndian.PutUint32
PutUint32(n) == <<(n \div 16777216) % 256, (n \div 65536) % 256, (n \div 256) % 256, n % 256>>

\* binary.BigEndian.Uint32 of a buffer of at least 4 bytes
Uint32(b) == b[1] * 16777216 + b[2] * 65536 + b[3] * 256 + b[4]

\* the members of a set of numbers in ascending order
RECURSIVE SortedSeq(_)
SortedSeq(S) ==
    IF S = {} THEN <<>>
    ELSE LET m == CHOOSE x \in S : \A y \in S : x <= y
         IN <<m>> \o SortedSeq(S \ {m})

\* roaring.Bitmap.ToBytes after RunOptimize: the row ids, ascending
ToBytes(bm) == [roaring |-> SortedSeq(bm)]

\* roaring.Bitmap.FromBuffer: an empty (nil) buffer is an error
FromBuffer(item) ==
    IF ~item.ok THEN [bm |-> {}, err |-> "EOF"]
    ELSE [bm |-> {item.val.roaring[i] : i \in 1..Len(item.val.roaring)}, err |-> "nil"]

\* gob.Encoder.Encode(schema): the stream of (column, value, code) entries
GobEncode(sch) == [gob |-> UNION {{<<k, v, sch[k][v]>> : v \in DOMAIN sch[k]} : k \in DOMAIN sch}]

\* gob.Decoder.Decode into a schema: an empty (nil) buffer and a stream cut
\* short are errors
GobDecode(item) ==
    IF ~item.ok THEN [sch |-> EmptySchema, err |-> "EOF"]
    ELSE IF "gob" \notin DOMAIN item.val THEN [sch |-> EmptySchema, err |-> "unexpected EOF"]
    ELSE LET es == item.val.gob
         IN [sch |-> [k \in {e[1] : e \in es} |->
                        [v \in {e[2] : e \in {x \in es : x[1] = k}} |->
                            (CHOOSE e \in es : e[1] = k /\ e[2] = v)[3]]],
             err |-> "nil"]

----------------------------------------------------------------------------
(* The bbolt store: the bucket "data" as committed, and a write transaction *)

keySchema == <<"S">>
keyNextRowID == <<"I">>
\* append(keyPrefixValue, keyBuf[:]...): 'V' and the code, big-endian
ValueKey(code) == <<"V", code>>

\* a database without the bucket "data"
EmptyStore == [has |-> FALSE, kv |-> EmptyMap]

\* Bucket.Get: nil for a key that is not there
BucketGet(store, key) ==
    IF key \in DOMAIN store.kv THEN [ok |-> TRUE, val |-> store.kv[key]] ELSE [ok |-> FALSE, val |-> <<>>]

\* Bucket.Put
BucketPut(store, key, val) == [store EXCEPT !.kv = MapPut(store.kv, key, val)]

----------------------------------------------------------------------------
(* IndexWriter (part_008) *)

\* the commit interval of WriteToBoltDatabase: if i%1000 == 0
commitEvery == 1000

NewIndexWriter == [schema |-> EmptySchema, values |-> EmptyMap, nextRowID |-> 0]

\* an AddToBitmap that forgets the row ids added before
AddToBitmapReplace(values, valueIdx, rowID) == MapPut(values, valueIdx, {rowID})

\* IndexWriter.getValueBitmap followed by bm.Add(rowID)
AddToBitmap(values, valueIdx, rowID) ==
    MapPut(values, valueIdx, (IF valueIdx \in DOMAIN values THEN values[valueIdx] ELSE {}) \cup {rowID})

\* the loop of IndexWriter.AddRow over the columns cols of the row
RECURSIVE IWAddCols(_, _, _, _)
IWAddCols(wrt, row, cols, rowID) ==
    IF cols = {} THEN wrt
    ELSE LET k == CHOOSE c \in cols : TRUE
             r == SchemaAdd(wrt.schema, k, row[k])
         IN IWAddCols([wrt EXCEPT !.schema = r.sch,
                                  !.values = AddToBitmap(wrt.values, r.val, rowID)],
                      row, cols \ {k}, rowID)

\* IndexWriter.AddRow: the row id is nextRowID, which the deferred func increments
IWAddRow(wrt, row) ==
    LET done == IWAddCols(wrt, row, DOMAIN row, wrt.nextRowID)
    IN [done EXCEPT !.nextRowID = wrt.nextRowID + 1]

\* WriteToBoltDatabase up to its loop: Begin, encode the schema,
\* CreateBucketIfNotExists, Put S, Put I
WriteBegin(wrt, committed) ==
    LET tx0 == [committed EXCEPT !.has = TRUE]
        tx1 == BucketPut(tx0, keySchema, GobEncode(wrt.schema))
        tx2 == BucketPut(tx1, keyNextRowID, PutUint32(wrt.nextRowID))
    IN [pc |-> "loop", committed |-> committed, tx |-> tx2, i |-> 0, todo |-> DOMAIN wrt.values]

\* one iteration of the loop over idx.values: Put V, and every 1000th time
\* Commit and Begin a new transaction
WritePut(wrt, st, k) ==
    LET tx == BucketPut(st.tx, ValueKey(k), ToBytes(wrt.values[k]))
        i == st.i + 1
    IN [st EXCEPT !.tx = tx,
                  !.i = i,
                  !.todo = st.todo \ {k},
                  !.committed = IF i % commitEvery = 0 THEN tx ELSE st.committed]

\* the final tx.Commit
WriteEnd(st) == [st EXCEPT !.pc = "done", !.committed = st.tx]

RECURSIVE WriteAll(_, _)
WriteAll(wrt, st) ==
    IF st.todo = {} THEN WriteEnd(st)
    ELSE WriteAll(wrt, WritePut(wrt, st, CHOOSE k \in st.todo : TRUE))

\* IndexWriter.WriteToBoltDatabase when no store operation fails: the store
\* as committed when it returns
WriteToBoltDatabase(wrt, committed) == WriteAll(wrt, WriteBegin(wrt, committed)).committed

----------------------------------------------------------------------------
(* BigIndexWriter (writer_big.go) *)

\* the scratch database holds the 12-byte keys code || rowID of bucket "temp"
\* the scratch commit interval of AddRow: rowID%1000 == 0
tempCommitEvery == 1000

NewBigIndexWriter ==
    [schema |-> EmptySchema, temp |-> {}, tempTx |-> {}, nextRowID |-> 0,
     db |-> EmptyStore, state |-> "open"]

\* the loop of BigIndexWriter.AddRow over the columns cols of the row
RECURSIVE BigAddCols(_, _, _, _)
BigAddCols(b, row, cols, rowID) ==
    IF cols = {} THEN b
    ELSE LET k == CHOOSE c \in cols : TRUE
             r == SchemaAdd(b.schema, k, row[k])
         IN BigAddCols([b EXCEPT !.schema = r.sch,
                                 !.tempTx = b.tempTx \cup {<<r.val, rowID>>}],
                       row, cols \ {k}, rowID)

\* BigIndexWriter.AddRow: the scratch transaction is committed every 1000 rows
BigAddRow(b, row) ==
    LET rowID == b.nextRowID
        done == BigAddCols(b, row, DOMAIN row, rowID)
    IN [done EXCEPT !.temp = IF rowID > 0 /\ rowID % tempCommitEvery = 0 THEN done.tempTx ELSE b.temp,
                    !.nextRowID = rowID + 1]

\* the order of the scratch keys: by code, then by row id (big-endian bytes)
KeyLess(x, y) == WordLess(x[1], y[1]) \/ (x[1] = y[1] /\ x[2] < y[2])

\* the keys the cursor visits, in order
RECURSIVE CursorSeq(_)
CursorSeq(keys) ==
    IF keys = {} THEN <<>>
    ELSE LET m == CHOOSE x \in keys : \A y \in keys \ {x} : KeyLess(x, y)
         IN <<m>> \o CursorSeq(keys \ {m})

\* the cursor loop of Flush from key n on.  f holds currentValueIdx, the
\* bitmap bm (hasBm: bm != nil), the transaction tx and whether bm.Add was
\* called on a nil bitmap
RECURSIVE FlushLoop(_, _, _)
FlushLoop(ks, n, f) ==
    IF n > Len(ks) \/ f.panic THEN f
    ELSE LET valueIdx == ks[n][1]
             rowID == ks[n][2]
             rotate == f.currentValueIdx # valueIdx
             tx == IF rotate /\ f.hasBm
                   THEN BucketPut(f.tx, ValueKey(f.currentValueIdx), ToBytes(f.bm))
                   ELSE f.tx
             hasBm == rotate \/ f.hasBm
         IN FlushLoop(ks, n + 1,
                [currentValueIdx |-> valueIdx,
                 hasBm |-> hasBm,
                 bm |-> IF rotate THEN {rowID} ELSE f.bm \cup {rowID},
                 tx |-> tx,
                 panic |-> ~hasBm])

\* BigIndexWriter.Flush when no store operation fails.  A nil pointer
\* dereference ends it with the deferred Rollback: nothing is committed.
BigFlush(b) ==
    LET temp == b.tempTx
        f == FlushLoop(CursorSeq(temp), 1,
                [currentValueIdx |-> {}, hasBm |-> FALSE, bm |-> {},
                 tx |-> [b.db EXCEPT !.has = TRUE], panic |-> FALSE])
        tx1 == IF f.hasBm THEN BucketPut(f.tx, ValueKey(f.currentValueIdx), ToBytes(f.bm)) ELSE f.tx
        tx2 == BucketPut(tx1, keyNextRowID, PutUint32(b.nextRowID))
        tx3 == BucketPut(tx2, keySchema, GobEncode(b.schema))
    IN IF f.panic
       THEN [b EXCEPT !.temp = temp, !.state = "panic"]
       ELSE [b EXCEPT !.temp = temp, !.db = tx3, !.state = "flushed"]

----------------------------------------------------------------------------
(* Index (index.go) *)

\* newPreloadedColGetter: every V key of the store, decoded
PreloadedValues(store) ==
    [code \in {k[2] : k \in {x \in DOMAIN store.kv : x[1] = "V"}} |->
        FromBuffer(BucketGet(store, ValueKey(code))).bm]

\* OpenIndexFromBoltDatabase(db, opts...): preload is WithPreloadedData.
\* A nil bucket or a row count item shorter than 4 bytes is a run-time
\* panic, a schema that does not decode an error.
OpenIndexFromBoltDatabase(store, preload) ==
    LET sch == GobDecode(BucketGet(store, keySchema))
        rowsItem == BucketGet(store, keyNextRowID)
        none == [schema |-> EmptySchema, nextRowID |-> 0, open |-> FALSE, hasDb |-> FALSE,
                 store |-> EmptyStore, getter |-> "ondemand", values |-> EmptyMap]
    IN IF ~store.has THEN [status |-> "panic", idx |-> none]
       ELSE IF sch.err # "nil" THEN [status |-> "error", idx |-> none]
       ELSE IF ~rowsItem.ok \/ Len(rowsItem.val) < 4 THEN [status |-> "panic", idx |-> none]
       ELSE [status |-> "ok",
             idx |-> [schema |-> sch.sch, nextRowID |-> Uint32(rowsItem.val), open |-> TRUE,
                      hasDb |-> TRUE, store |-> store,
                      getter |-> IF preload THEN "preloaded" ELSE "ondemand",
                      values |-> IF preload THEN PreloadedValues(store) ELSE EmptyMap]]

\* onDemandColGetter.GetCol
OnDemandGetCol(ix, key) ==
    IF ~ix.open THEN [bm |-> {}, isNil |-> TRUE, err |-> "database not open"]
    ELSE LET r == FromBuffer(BucketGet(ix.store, ValueKey(key)))
         IN IF r.err # "nil" THEN [bm |-> {}, isNil |-> TRUE, err |-> r.err]
            ELSE [bm |-> r.bm, isNil |-> FALSE, err |-> "nil"]

\* a preloaded getter whose bitmaps were never filled
PreloadedGetColEmpty(ix, key) == [bm |-> {}, isNil |-> FALSE, err |-> "nil"]

\* preloadedColGetter.GetCol: the map's zero value (nil) for a missing code
PreloadedGetCol(ix, key) ==
    IF key \in DOMAIN ix.values
    THEN [bm |-> ix.values[key], isNil |-> FALSE, err |-> "nil"]
    ELSE [bm |-> {}, isNil |-> TRUE, err |-> "nil"]

\* a getter for which a code without posting stands for every row
GetColFull(ix, key) ==
    IF ix.getter = "preloaded" /\ key \in DOMAIN ix.values
    THEN PreloadedGetCol(ix, key)
    ELSE [bm |-> 0..(ix.nextRowID - 1), isNil |-> FALSE, err |-> "nil"]

\* colGetter.GetCol
GetCol(ix, key) == IF ix.getter = "preloaded" THEN PreloadedGetCol(ix, key) ELSE OnDemandGetCol(ix, key)

----------------------------------------------------------------------------
(* Expressions (query.go) *)

Eq(c, v) == [op |-> "eq", col |-> c, val |-> v, kids |-> <<>>]
Not(e) == [op |-> "not", col |-> "", val |-> <<>>, kids |-> <<e>>]
And(es) == [op |-> "and", col |-> "", val |-> <<>>, kids |-> es]
Or(es) == [op |-> "or", col |-> "", val |-> <<>>, kids |-> es]

\* a key that rotates the running key at every child
RECURSIVE XorKeysChained(_, _)
XorKeysChained(key, ks) ==
    IF ks = <<>> THEN key ELSE XorKeysChained(xor(rotl1(key), ks[1]), Tail(ks))

\* a key that takes the bitwise or of the rotated keys
RECURSIVE XorKeysOr(_, _)
XorKeysOr(key, ks) ==
    IF ks = <<>> THEN key ELSE XorKeysOr(key \cup rotl1(ks[1]), Tail(ks))

\* the xor of the rotated keys of a child list, onto key
RECURSIVE XorKeys(_, _)
XorKeys(key, ks) ==
    IF ks = <<>> THEN key ELSE XorKeys(xor(key, rotl1(ks[1])), Tail(ks))

\* Expression.cacheKey
RECURSIVE cacheKey(_)
cacheKey(e) ==
    CASE e.op = "eq" -> getValueIndex(e.col, e.val)
      [] e.op = "not" -> xor(rotl1(cacheKey(e.kids[1])), maskNot)
      [] e.op = "and" -> XorKeys(maskAnd, [i \in 1..Len(e.kids) |-> cacheKey(e.kids[i])])
      [] e.op = "or" -> XorKeys(maskOr, [i \in 1..Len(e.kids) |-> cacheKey(e.kids[i])])

\* roaring.FastAnd / roaring.FastOr of a list of bitmaps
FastAnd(elems) ==
    IF elems = <<>> THEN {} ELSE {r \in elems[1] : \A i \in 1..Len(elems) : r \in elems[i]}

FastOr(elems) == UNION {elems[i] : i \in 1..Len(elems)}

RECURSIVE eval(_, _, _)
RECURSIVE evalKids(_, _, _, _)

\* the loop of ExprAnd.eval / ExprOr.eval over the children: the bitmaps
\* elems so far, the first error, the cache as the children left it, and
\* the calls the children made
evalKids(kids, ix, c, elems) ==
    IF kids = <<>> THEN [elems |-> elems, err |-> "nil", cache |-> c, log |-> <<>>]
    ELSE LET r == eval(kids[1], ix, c)
         IN IF r.err # "nil"
            THEN [elems |-> elems, err |-> r.err, cache |-> r.cache, log |-> r.log]
            ELSE [evalKids(Tail(kids), ix, r.cache, Append(elems, r.bm)) EXCEPT
                     !.log = r.log \o @]

\* Expression.eval: the bitmap, the error, the cache afterwards, and the
\* calls made in order: cache.Get with a hit or a miss, values.GetCol,
\* cache.Put
eval(e, ix, c) ==
    IF e.op = "eq" /\ e.col \notin DOMAIN ix.schema
    THEN [bm |-> {}, err |-> "column not found in schema", cache |-> c, log |-> <<>>]
    ELSE LET key == cacheKey(e)
             g == CacheGet(c, key)
         IN IF g.found THEN [bm |-> g.bm, err |-> "nil", cache |-> g.cache, log |-> <<"hit">>]
            ELSE CASE e.op = "eq" ->
                        LET col == GetCol(ix, getValueIndex(e.col, e.val))
                            bm == IF col.err # "nil" \/ col.isNil THEN {} ELSE col.bm
                        IN [bm |-> bm, err |-> "nil", cache |-> CachePut(g.cache, key, bm),
                            log |-> <<"miss", "GetCol", "Put">>]
                   [] e.op = "not" ->
                        LET r == eval(e.kids[1], ix, g.cache)
                            bm == Flip(r.bm, 0, ix.nextRowID)
                        IN IF r.err # "nil"
                           THEN [bm |-> {}, err |-> r.err, cache |-> r.cache,
                                 log |-> <<"miss">> \o r.log]
                           ELSE [bm |-> bm, err |-> "nil", cache |-> CachePut(r.cache, key, bm),
                                 log |-> <<"miss">> \o r.log \o <<"Put">>]
                   [] e.op \in {"and", "or"} ->
                        LET r == evalKids(e.kids, ix, g.cache, <<>>)
                            bm == IF e.op = "and" THEN FastAnd(r.elems) ELSE FastOr(r.elems)
                        IN IF r.err # "nil"
                           THEN [bm |-> {}, err |-> r.err, cache |-> r.cache,
                                 log |-> <<"miss">> \o r.log]
                           ELSE [bm |-> bm, err |-> "nil", cache |-> CachePut(r.cache, key, bm),
                                 log |-> <<"miss">> \o r.log \o <<"Put">>]

----------------------------------------------------------------------------
(* Query.populateGroupBy, Query.groupBy, Index.Execute (query.go) *)

NewQuery(expr, groupBy) == [Expr |-> expr, GroupBy |-> groupBy, groupByFields |-> <<>>]

\* the values of a column by insertion into a sorted list
RECURSIVE InsertSorted(_, _)
InsertSorted(sorted, gv) ==
    IF sorted = <<>> THEN <<gv>>
    ELSE IF StrLess(gv.Value, sorted[1].Value) THEN <<gv>> \o sorted
    ELSE <<sorted[1]>> \o InsertSorted(Tail(sorted), gv)

\* gb.Values of one column: every (value, code), sorted by value with
\* sort.Slice and the byte-wise string order
RECURSIVE SortedValues(_)
SortedValues(col) ==
    IF DOMAIN col = {} THEN <<>>
    ELSE LET v == CHOOSE x \in DOMAIN col : TRUE
         IN InsertSorted(SortedValues([x \in DOMAIN col \ {v} |-> col[x]]), [Value |-> v, Idx |-> col[v]])

\* Query.populateGroupBy: appends to q.groupByFields; stops at the first
\* column that is not in the schema
RECURSIVE populateGroupBy(_, _, _)
populateGroupBy(q, columns, sch) ==
    IF columns = <<>> THEN [q |-> q, err |-> "nil"]
    ELSE IF columns[1] \notin DOMAIN sch THEN [q |-> q, err |-> "column not found"]
    ELSE populateGroupBy(
            [q EXCEPT !.groupByFields =
                Append(q.groupByFields, [Column |-> columns[1], Values |-> SortedValues(sch[columns[1]])])],
            Tail(columns), sch)

\* A Go slice of ResultField: the backing array arr (0: none) in the heap
\* of arrays, its length and its capacity
NilSlice == [arr |-> 0, len |-> 0, cap |-> 0]

ZeroField == [Column |-> "", Value |-> <<>>]

\* the capacity append gives a full slice of 32-byte elements (runtime
\* growslice below 256 elements: the needed capacity or twice the old one)
GrowCap(oldCap, needed) == IF needed > 2 * oldCap THEN needed ELSE 2 * oldCap

\* append(sl, x): in place when the capacity allows, else into a new,
\* larger backing array
SliceAppend(heap, sl, x) ==
    IF sl.len < sl.cap
    THEN [heap |-> [heap EXCEPT ![sl.arr][sl.len + 1] = x],
          slice |-> [sl EXCEPT !.len = sl.len + 1]]
    ELSE LET newCap == GrowCap(sl.cap, sl.len + 1)
             arr == [i \in 1..newCap |->
                        IF i <= sl.len THEN heap[sl.arr][i]
                        ELSE IF i = sl.len + 1 THEN x ELSE ZeroField]
         IN [heap |-> Append(heap, arr),
             slice |-> [arr |-> Len(heap) + 1, len |-> sl.len + 1, cap |-> newCap]]

\* the elements of a slice
SliceRead(heap, sl) == IF sl.len = 0 THEN <<>> ELSE SubSeq(heap[sl.arr], 1, sl.len)

\* the loop over gbf.Values with the group's bitmap taken whole, not
\* intersected with the value's
RECURSIVE GroupByValuesWhole(_, _, _, _, _)
GroupByValuesWhole(gbf, rg, n, ix, st) ==
    IF n > Len(gbf.Values) \/ st.panic THEN st
    ELSE LET v == gbf.Values[n]
             vbm == GetCol(ix, v.Idx)
             app == SliceAppend(st.heap, rg.fields, [Column |-> gbf.Column, Value |-> v.Value])
         IN IF vbm.err # "nil" \/ vbm.isNil \/ Cardinality(rg.result) = 0
            THEN GroupByValuesWhole(gbf, rg, n + 1, ix, [st EXCEPT !.calls = @ + 1])
            ELSE GroupByValuesWhole(gbf, rg, n + 1, ix,
                    [st EXCEPT !.heap = app.heap,
                               !.calls = @ + 1,
                               !.groups = Append(st.groups, [fields |-> app.slice, result |-> rg.result])])

\* the loop of groupBy over gbf.Values for one result group rg, from value
\* n on.  st: the heap, newResultGroups, and whether roaring.And was
\* handed a nil bitmap
RECURSIVE GroupByValues(_, _, _, _, _)
GroupByValues(gbf, rg, n, ix, st) ==
    IF n > Len(gbf.Values) \/ st.panic THEN st
    ELSE LET v == gbf.Values[n]
             vbm == GetCol(ix, v.Idx)
             result == rg.result \cap vbm.bm
             app == SliceAppend(st.heap, rg.fields, [Column |-> gbf.Column, Value |-> v.Value])
         IN IF vbm.err # "nil"
            THEN GroupByValues(gbf, rg, n + 1, ix, [st EXCEPT !.calls = @ + 1])
            ELSE IF vbm.isNil THEN [st EXCEPT !.panic = TRUE, !.calls = @ + 1]
            ELSE IF Cardinality(result) = 0
            THEN GroupByValues(gbf, rg, n + 1, ix, [st EXCEPT !.calls = @ + 1])
            ELSE GroupByValues(gbf, rg, n + 1, ix,
                    [st EXCEPT !.heap = app.heap,
                               !.calls = @ + 1,
                               !.groups = Append(st.groups, [fields |-> app.slice, result |-> result])])

\* the loop of groupBy over resultGroups for one group-by field
RECURSIVE GroupByGroups(_, _, _, _, _)
GroupByGroups(gbf, rgs, n, ix, st) ==
    IF n > Len(rgs) \/ st.panic THEN st
    ELSE GroupByGroups(gbf, rgs, n + 1, ix, GroupByValues(gbf, rgs[n], 1, ix, st))

\* the loop of groupBy over q.groupByFields
RECURSIVE GroupByFields(_, _, _, _)
GroupByFields(gbfs, n, ix, st) ==
    IF n > Len(gbfs) \/ st.panic THEN st
    ELSE GroupByFields(gbfs, n + 1, ix,
            GroupByGroups(gbfs[n], st.groups, 1, ix, [st EXCEPT !.groups = <<>>]))

\* Query.groupBy: the ResultGroups, their Fields read from the backing
\* arrays as they are when groupBy returns
groupBy(q, result, ix) ==
    IF Len(q.groupByFields) = 0 THEN [groups |-> <<>>, panic |-> FALSE, calls |-> 0]
    ELSE LET st == GroupByFields(q.groupByFields, 1, ix,
                        [heap |-> <<>>, groups |-> <<[fields |-> NilSlice, result |-> result]>>,
                         panic |-> FALSE, calls |-> 0])
         IN [groups |-> [i \in 1..Len(st.groups) |->
                            [Fields |-> SliceRead(st.heap, st.groups[i].fields),
                             Count |-> Cardinality(st.groups[i].result)]],
             panic |-> st.panic, calls |-> st.calls]

\* Index.Execute(q) on index ix with cache c: the error or the Result, the
\* Query and the cache as the call leaves them
Execute(ix, q, c) ==
    LET p == populateGroupBy(q, q.GroupBy, ix.schema)
        r == eval(p.q.Expr, ix, c)
        g == groupBy(p.q, r.bm, ix)
    IN IF p.err # "nil"
       THEN [err |-> p.err, panic |-> FALSE, Count |-> 0, Groups |-> <<>>, q |-> p.q, cache |-> c,
             log |-> <<>>]
       ELSE IF r.err # "nil"
       THEN [err |-> r.err, panic |-> FALSE, Count |-> 0, Groups |-> <<>>, q |-> p.q, cache |-> r.cache,
             log |-> r.log]
       ELSE [err |-> "nil", panic |-> g.panic, Count |-> Cardinality(r.bm),
             Groups |-> IF g.panic THEN <<>> ELSE g.groups, q |-> p.q, cache |-> r.cache,
             log |-> r.log \o [i \in 1..g.calls |-> "GetCol"]]

----------------------------------------------------------------------------
(* The state of the parts a specification does not exercise *)

NoPair == <<>>

\* a new updogDriver: fileConnCache is empty; conns and indexes are the
\* fileConn and Index objects allocated so far, held the connections the
\* callers of Open hold and have not closed, opens the number of Open calls
NoDriver == [fileConnCache |-> EmptyMap, conns |-> <<>>, indexes |-> <<>>, held |-> <<>>, opens |-> 0]

NoOp == [op |-> "none"]

\* no index has been opened
NoIndex ==
    [schema |-> EmptySchema, nextRowID |-> 0, open |-> FALSE, hasDb |-> FALSE,
     store |-> EmptyStore, getter |-> "none", values |-> EmptyMap]

\* sync.Mutex / sync.RWMutex of IndexWriter and BigIndexWriter, unlocked
NoLocks == [iw |-> 0, big |-> 0]

\* no WriteToBoltDatabase is running
IdleWrite == [pc |-> "idle", tx |-> EmptyStore, i |-> 0, todo |-> {}]

----------------------------------------------------------------------------
(* SpecCache: an LRUCache under any sequence of Get and Put *)

\* the keys, bitmaps and maximum sizes the cache is driven with
CacheKeys == {NatBits(1), NatBits(2), maskAnd}
CacheBitmaps == {{}, {0, 1}}
CacheSizes == {0, 80, 150, 250}

EntrySize(bm) == GetSizeInBytes(bm) + lruCacheItemSize + listElementSize

RECURSIVE SumEntrySizes(_, _)
SumEntrySizes(l, i) ==
    IF i > Len(l) THEN 0 ELSE EntrySize(l[i].bm) + SumEntrySizes(l, i + 1)

CacheOthersInit ==
    /\ xxhZero = NoPair
    /\ drv = NoDriver
    /\ rows = <<>>
    /\ w = NewIndexWriter
    /\ bw = NewBigIndexWriter
    /\ db = EmptyStore
    /\ wr = IdleWrite
    /\ idx = NoIndex
    /\ thr = <<>>
    /\ mtx = NoLocks
    /\ closes = 0

InitCache ==
    /\ \E m \in CacheSizes : cache = NewLRUCache(m)
    /\ lastOp = NoOp
    /\ CacheOthersInit

\* the keys used so far, most recently used first, as the calls made tell it
UsesOf(lo) == IF "uses" \in DOMAIN lo THEN lo.uses ELSE <<>>

Touch(uses, key) == <<key>> \o SelectSeq(uses, LAMBDA k : k # key)

DoGet(key) ==
    LET r == LRUGet(cache, key)
    IN /\ cache' = r.cache
       /\ lastOp' = [op |-> "Get", key |-> key, bm |-> r.bm, found |-> r.found,
                      uses |-> IF r.found THEN Touch(UsesOf(lastOp), key) ELSE UsesOf(lastOp)]
       /\ UNCHANGED <<xxhZero, drv, rows, w, bw, db, wr, idx, thr, mtx, closes>>

DoPut(key, bm) ==
    /\ cache' = LRUPut(cache, key, bm)
    /\ lastOp' = [op |-> "Put", key |-> key, bm |-> bm,
                   wasNew |-> key \notin DOMAIN cache.entries,
                   lenBefore |-> Len(cache.lruList),
                   before |-> DOMAIN cache.entries,
                   uses |-> Touch(UsesOf(lastOp), key)]
    /\ UNCHANGED <<xxhZero, drv, rows, w, bw, db, wr, idx, thr, mtx, closes>>

NextCache ==
    \/ \E key \in CacheKeys : DoGet(key)
    \/ \E key \in CacheKeys, bm \in CacheBitmaps : DoPut(key, bm)

SpecCache == InitCache /\ [][NextCache]_vars

\* C5: after any sequence of Puts interleaved with Gets, curSize <= maxSize
\* or the cache contains exactly one entry.
C5_SizeBound == cache.curSize <= cache.maxSize \/ Len(cache.lruList) = 1

\* a Put of a new key has evicted an older entry and entries remain
C5_Witness ==
    /\ lastOp.op = "Put"
    /\ lastOp.wasNew
    /\ Len(cache.lruList) < lastOp.lenBefore + 1
    /\ Len(cache.lruList) >= 1

\* a Put of a new key whose entry alone is larger than maxSize has returned
OversizedPut ==
    /\ lastOp.op = "Put"
    /\ lastOp.wasNew
    /\ EntrySize(lastOp.bm) > cache.maxSize

\* C6 as stated: after Put(k, bm) of a new key whose entry alone exceeds
\* maxSize the entry is retained: Get(k) is a hit that returns bm.
C6_OversizedRetained ==
    OversizedPut =>
        /\ LRUGet(cache, lastOp.key).found
        /\ LRUGet(cache, lastOp.key).bm = lastOp.bm

\* C6 amended: after Put(k, bm) of a new key whose entry alone exceeds
\* maxSize the cache holds no entry at all (the loop evicts the new entry
\* too): curSize is 0 and Get(k) is a miss.
C6_OversizedEvicted ==
    OversizedPut =>
        /\ cache.lruList = <<>>
        /\ DOMAIN cache.entries = {}
        /\ cache.curSize = 0
        /\ ~LRUGet(cache, lastOp.key).found

\* an oversized Put into a cache that held entries
C6_Witness == OversizedPut /\ lastOp.lenBefore >= 1

\* the keys the last Put has evicted, the new key included
Evicted == (lastOp.before \cup {lastOp.key}) \ DOMAIN cache.entries

\* the position of a key in the order of use: 1 is the most recently used
UsePos(key) == CHOOSE i \in 1..Len(lastOp.uses) : lastOp.uses[i] = key

\* C27: when a Put of a new key evicts, no evicted entry was used (by a Get
\* hit or a Put on its key) more recently than an entry that is still present.
C27_EvictsLeastRecent ==
    (lastOp.op = "Put" /\ lastOp.wasNew) =>
        \A k \in Evicted : \A j \in DOMAIN cache.entries : UsePos(j) < UsePos(k)

\* a Put of a new key has evicted one of two older entries and kept the other
C27_Witness ==
    /\ lastOp.op = "Put"
    /\ lastOp.wasNew
    /\ Evicted # {}
    /\ Cardinality(lastOp.before \cap DOMAIN cache.entries) >= 1

\* C28: curSize is the sum over the stored entries of the size of the entry's
\* current bitmap plus the fixed entry overhead.
C28_SizeIsSum ==
    cache.curSize = SumEntrySizes(cache.lruList, 1)

----------------------------------------------------------------------------
(* The rows and queries the index is driven with *)

V1 == <<49>>
V2 == <<50>>
V3 == <<51>>
V9 == <<57>>
V10 == <<49, 48>>

\* the rows AddRow is called with; a row need not have every column
RowChoices ==
    { ("a" :> V1) @@ ("b" :> V2) @@ ("c" :> V3) @@ ("d" :> V10),
      ("a" :> V1) @@ ("b" :> V2) @@ ("c" :> V3) @@ ("d" :> V2),
      ("a" :> V2) @@ ("b" :> V2) }

\* Eq nodes: observed values, a value no row has, a column no row has
Leaves == {Eq("a", V1), Eq("b", V2), Eq("d", V10), Eq("a", V9)}

KidLists(S) == UNION {[1..n -> S] : n \in 1..MaxKids}

Level1 == {Not(e) : e \in Leaves} \cup {And(es) : es \in KidLists(Leaves)} \cup {Or(es) : es \in KidLists(Leaves)}

Level2 ==
    {Not(e) : e \in Level1}
        \cup {And(<<e, Eq("a", V1)>>) : e \in Level1}
        \cup {Or(<<Eq("b", V2), e>>) : e \in Level1}

Exprs == Leaves \cup Level1 \cup Level2

GroupBys == {<<"a">>, <<"d", "a">>, <<"b", "b">>, <<"a", "b", "c", "d">>}

Queries ==
    {NewQuery(e, <<>>) : e \in Exprs}
        \cup {NewQuery(e, g) : e \in {Eq("a", V1), Eq("b", V2), Not(Eq("a", V2))}, g \in GroupBys}

\* row satisfies e under the classical boolean interpretation
RECURSIVE Sat(_, _)
Sat(row, e) ==
    CASE e.op = "eq" -> e.col \in DOMAIN row /\ row[e.col] = e.val
      [] e.op = "not" -> ~Sat(row, e.kids[1])
      [] e.op = "and" -> \A i \in 1..Len(e.kids) : Sat(row, e.kids[i])
      [] e.op = "or" -> \E i \in 1..Len(e.kids) : Sat(row, e.kids[i])

\* the row ids (from 0) of the rows added that satisfy e
Matched(e) == {r \in 0..(Len(rows) - 1) : Sat(rows[r + 1], e)}

\* the columns an expression names
RECURSIVE ColumnsOf(_)
ColumnsOf(e) ==
    IF e.op = "eq" THEN {e.col} ELSE UNION {ColumnsOf(e.kids[i]) : i \in 1..Len(e.kids)}

----------------------------------------------------------------------------
(* SpecQuery: build an index, open it with default options, run queries *)

QueryOthers == <<xxhZero, drv, bw, wr, thr, mtx, closes>>

InitQuery ==
    /\ cache = nullCache
    /\ lastOp = NoOp
    /\ xxhZero = NoPair
    /\ drv = NoDriver
    /\ rows = <<>>
    /\ w = NewIndexWriter
    /\ bw = NewBigIndexWriter
    /\ db = EmptyStore
    /\ wr = IdleWrite
    /\ idx = NoIndex
    /\ thr = <<>>
    /\ mtx = NoLocks
    /\ closes = 0

\* IndexWriter.AddRow
AddRow(row) ==
    /\ Len(rows) < MaxRows
    /\ ~db.has
    /\ w' = IWAddRow(w, row)
    /\ rows' = Append(rows, row)
    /\ lastOp' = [op |-> "AddRow", rowID |-> w.nextRowID]
    /\ UNCHANGED <<cache, db, idx, QueryOthers>>

\* IndexWriter.WriteToBoltDatabase on a new database
WriteIndex ==
    /\ ~db.has
    /\ db' = WriteToBoltDatabase(w, db)
    /\ lastOp' = [op |-> "WriteToBoltDatabase"]
    /\ UNCHANGED <<cache, rows, w, idx, QueryOthers>>

\* OpenIndexFromBoltDatabase(db, opts...) with the cache c
OpenIndex(preload, c) ==
    /\ db.has
    /\ idx.getter = "none"
    /\ LET r == OpenIndexFromBoltDatabase(db, preload)
       IN /\ r.status = "ok"
          /\ idx' = r.idx
    /\ cache' = c
    /\ lastOp' = NoOp
    /\ UNCHANGED <<rows, w, db, QueryOthers>>

\* Index.Execute of a new Query by the caller, who makes one call at a time
DoExecute(q) ==
    /\ idx.getter # "none"
    /\ lastOp.op # "Execute"
    /\ LET r == Execute(idx, q, cache)
       IN /\ cache' = r.cache
          /\ lastOp' = [op |-> "Execute", q |-> q, err |-> r.err, panic |-> r.panic,
                        Count |-> r.Count, Groups |-> r.Groups, after |-> r.q]
    /\ UNCHANGED <<rows, w, db, idx, QueryOthers>>

\* the caller has read the Result and is ready for its next call
TakeResult ==
    /\ lastOp.op = "Execute"
    /\ lastOp' = NoOp
    /\ UNCHANGED <<cache, rows, w, db, idx, QueryOthers>>

NextQuery ==
    \/ \E row \in RowChoices : AddRow(row)
    \/ WriteIndex
    \/ OpenIndex(FALSE, nullCache)
    \/ \E q \in Queries : DoExecute(q)
    \/ TakeResult

SpecQuery == InitQuery /\ [][NextQuery]_vars

\* an Execute on the index opened with default options returned a Result
Executed ==
    /\ lastOp.op = "Execute"
    /\ lastOp.err = "nil"
    /\ ~lastOp.panic

\* C1: with the null cache, for every expression of Eq/Not/And/Or (And/Or
\* with at least one child) over columns of the schema, Execute returns
\* without error the number of rows that satisfy the expression.
C1_CountIsClassical ==
    (/\ lastOp.op = "Execute"
     /\ cache.kind = "null"
     /\ ColumnsOf(lastOp.q.Expr) \subseteq DOMAIN idx.schema
     /\ \A i \in 1..Len(lastOp.q.GroupBy) : lastOp.q.GroupBy[i] \in DOMAIN idx.schema)
        => Executed /\ lastOp.Count = Cardinality(Matched(lastOp.q.Expr))

\* a query with a Not under an And matched some rows and not others
C1_Witness ==
    /\ Executed
    /\ cache.kind = "null"
    /\ lastOp.q.Expr.op = "and"
    /\ \E i \in 1..Len(lastOp.q.Expr.kids) : lastOp.q.Expr.kids[i].op = "not"
    /\ lastOp.Count > 0
    /\ lastOp.Count < Len(rows)

\* the values of row in the group-by columns gb, when it has them all
HasAll(row, gb) == \A k \in 1..Len(gb) : gb[k] \in DOMAIN row

TupleOf(row, gb) == [k \in 1..Len(gb) |-> row[gb[k]]]

\* the values of the Fields of a group
ValuesOf(g) == [k \in 1..Len(g.Fields) |-> g.Fields[k].Value]

\* the matched rows that have the values vs in the group-by columns gb
RowsWith(e, gb, vs) ==
    {r \in Matched(e) : HasAll(rows[r + 1], gb) /\ TupleOf(rows[r + 1], gb) = vs}

\* s before t in the lexicographic order of tuples of strings
TupleLess(s, t) ==
    \E k \in 1..Len(s) :
        /\ k <= Len(t)
        /\ \A j \in 1..(k - 1) : s[j] = t[j]
        /\ StrLess(s[k], t[k])

\* an Execute with a group-by list returned a Result
Grouped == Executed /\ Len(lastOp.q.GroupBy) >= 1

\* C3: for a group-by list of n >= 1 columns every ResultGroup has exactly
\* n Fields, Fields[k].Column is the k-th group-by column, Count is the
\* number of matched rows with the listed values, and no two groups of one
\* Result carry the same Fields.
C3_GroupFields ==
    Grouped =>
        LET gb == lastOp.q.GroupBy
            gs == lastOp.Groups
        IN /\ \A i \in 1..Len(gs) :
                /\ Len(gs[i].Fields) = Len(gb)
                /\ \A k \in 1..Len(gb) : gs[i].Fields[k].Column = gb[k]
                /\ gs[i].Count = Cardinality(RowsWith(lastOp.q.Expr, gb, ValuesOf(gs[i])))
           /\ \A i, j \in 1..Len(gs) : i # j => gs[i].Fields # gs[j].Fields

\* C4: groups are emitted in ascending lexicographic order of their value
\* tuples, no emitted group has Count 0, and a value combination is
\* emitted iff at least one matched row has it.
C4_GroupOrder ==
    Grouped =>
        LET gb == lastOp.q.GroupBy
            gs == lastOp.Groups
        IN /\ \A i \in 1..(Len(gs) - 1) : TupleLess(ValuesOf(gs[i]), ValuesOf(gs[i + 1]))
           /\ \A i \in 1..Len(gs) : gs[i].Count > 0
           /\ {ValuesOf(gs[i]) : i \in 1..Len(gs)}
                = {TupleOf(rows[r + 1], gb) : r \in {x \in Matched(lastOp.q.Expr) : HasAll(rows[x + 1], gb)}}

RECURSIVE SumCounts(_, _)
SumCounts(gs, i) == IF i > Len(gs) THEN 0 ELSE gs[i].Count + SumCounts(gs, i + 1)

\* the rows the expression of the last Execute matched: its result bitmap
ResultRows == eval(lastOp.q.Expr, idx, nullCache).bm

\* every matched row has a value in every group-by column
AllHaveAll(bm, gb) == \A r \in bm : HasAll(rows[r + 1], gb)

C29_WitnessEqual ==
    /\ Grouped
    /\ Len(lastOp.Groups) >= 2
    /\ AllHaveAll(ResultRows, lastOp.q.GroupBy)
    /\ SumCounts(lastOp.Groups, 1) = lastOp.Count

----------------------------------------------------------------------------
(* SpecCached: the same index opened with an LRUCache *)

\* the maximum sizes of the cache of the index: room for one entry, for all
QueryCacheSizes == {100, 1000}

X == Eq("a", V1)
Y == Eq("b", V2)
\* an Eq on a column no row has
Z == Eq("z", V1)

CachedQueries ==
    {NewQuery(e, <<>>) : e \in {And(<<X, X>>), And(<<Y, Y>>), And(<<X, Y>>), And(<<Y, X>>), Not(And(<<X, Y>>)),
                                And(<<Z, Z>>), Not(Z)}}
        \cup {NewQuery(X, <<"a">>), NewQuery(X, <<"a", "z">>)}

NextCached ==
    \/ \E row \in RowChoices : AddRow(row)
    \/ WriteIndex
    \/ \E m \in QueryCacheSizes : OpenIndex(FALSE, NewLRUCache(m))
    \/ \E q \in CachedQueries : DoExecute(q)
    \/ TakeResult

SpecCached == InitQuery /\ [][NextCached]_vars

\* C2: every Execute on an index with an LRUCache returns the Count and
\* Groups that the same query returns on the same index with the null cache.
C2_CacheSound ==
    (lastOp.op = "Execute" /\ cache.kind = "lru") =>
        LET cold == Execute(idx, lastOp.q, nullCache)
        IN /\ lastOp.err = cold.err
           /\ lastOp.Count = cold.Count
           /\ lastOp.Groups = cold.Groups

\* C15: Execute returns an error and no Result whenever the expression has
\* an Eq node, at any depth, whose column is not in the schema, or the
\* GroupBy list names a column that is not in the schema, with the null
\* cache and with an LRUCache in any reachable state.
C15_UnknownColumnIsError ==
    (/\ lastOp.op = "Execute"
     /\ \/ ~(ColumnsOf(lastOp.q.Expr) \subseteq DOMAIN idx.schema)
        \/ \E i \in 1..Len(lastOp.q.GroupBy) : lastOp.q.GroupBy[i] \notin DOMAIN idx.schema)
        => lastOp.err # "nil"

----------------------------------------------------------------------------
(* SpecBuild: the same rows through IndexWriter and BigIndexWriter *)

\* the (column, value) pair whose hash is 0, if any
ZeroPairs == {NoPair, <<"a", V1>>, <<"d", V10>>}

\* the (column, value) pairs asked for: those of the rows and one of no row
BuildPairs ==
    UNION {{<<k, row[k]>> : k \in DOMAIN row} : row \in RowChoices} \cup {<<"a", V9>>}

BuildQueries == {NewQuery(Eq(p[1], p[2]), <<>>) : p \in BuildPairs}

InitBuild ==
    /\ cache = nullCache
    /\ lastOp = NoOp
    /\ xxhZero \in ZeroPairs
    /\ drv = NoDriver
    /\ rows = <<>>
    /\ w = NewIndexWriter
    /\ bw = NewBigIndexWriter
    /\ db = EmptyStore
    /\ wr = IdleWrite
    /\ idx = NoIndex
    /\ thr = <<>>
    /\ mtx = NoLocks
    /\ closes = 0

\* AddRow of the same row on both writers
BuildAddRow(row) ==
    /\ Len(rows) < MaxRows
    /\ ~db.has
    /\ bw.state = "open"
    /\ w' = IWAddRow(w, row)
    /\ bw' = BigAddRow(bw, row)
    /\ rows' = Append(rows, row)
    /\ lastOp' = [op |-> "AddRow", rowID |-> w.nextRowID]
    /\ UNCHANGED <<cache, db, idx, xxhZero, drv, wr, thr, mtx, closes>>

\* BigIndexWriter.Flush into its own new database
BuildFlush ==
    /\ bw.state = "open"
    /\ bw' = BigFlush(bw)
    /\ lastOp' = [op |-> "Flush"]
    /\ UNCHANGED <<cache, rows, w, db, idx, xxhZero, drv, wr, thr, mtx, closes>>

NextBuild ==
    \/ \E row \in RowChoices : BuildAddRow(row)
    \/ WriteIndex
    \/ BuildFlush
    \/ \E preload \in BOOLEAN : OpenIndex(preload, nullCache)
    \/ \E q \in BuildQueries : DoExecute(q)
    \/ TakeResult

SpecBuild == InitBuild /\ [][NextBuild]_vars

\* C7: for every assignment of value codes, the store Flush produces has
\* the V keys, posting contents, schema and next-row-id of the store
\* WriteToBoltDatabase produces from the same rows.
C7_SameStores ==
    (db.has /\ bw.state # "open") => (bw.state = "flushed" /\ bw.db = db)

\* the columns of the rows added, and the values of a column
RowColumns == UNION {DOMAIN rows[i] : i \in 1..Len(rows)}
RowValues(k) == {rows[i][k] : i \in {j \in 1..Len(rows) : k \in DOMAIN rows[j]}}

\* the number of rows added with value v in column k
NaiveCount(k, v) == Cardinality({i \in 1..Len(rows) : k \in DOMAIN rows[i] /\ rows[i][k] = v})

\* C8: the index opened from the store an IndexWriter wrote has exactly the
\* columns and values of the rows as its schema, and Execute(Eq(column,
\* value)) returns the number of rows with that value in that column.
C8_RoundTrip ==
    idx.getter # "none" =>
        /\ DOMAIN idx.schema = RowColumns
        /\ \A k \in DOMAIN idx.schema : DOMAIN idx.schema[k] = RowValues(k)
        /\ (lastOp.op = "Execute" /\ lastOp.q.Expr.col \in RowColumns) =>
                /\ Executed
                /\ lastOp.Count = NaiveCount(lastOp.q.Expr.col, lastOp.q.Expr.val)

\* an Eq query on a preloaded index of two rows counted both rows
C8_Witness ==
    /\ idx.getter = "preloaded"
    /\ Executed
    /\ Len(rows) = 2
    /\ lastOp.Count = 2

----------------------------------------------------------------------------
(* SpecPostings: the postings of an IndexWriter and of the store it writes,
   for rows whose column names and values may hold a zero byte *)

\* the row {"a\x00b": "c"} and the row {"a": "b\x00c"}
NulRows == { (NulCol :> <<99>>), ("a" :> <<98, 0, 99>>) }

PostingRows == RowChoices \cup NulRows

PostingQueries ==
    UNION {{NewQuery(Eq(k, row[k]), <<>>) : k \in DOMAIN row} : row \in PostingRows}

NextPostings ==
    \/ \E row \in PostingRows : AddRow(row)
    \/ WriteIndex
    \/ \E preload \in BOOLEAN : OpenIndex(preload, nullCache)
    \/ \E q \in PostingQueries : DoExecute(q)
    \/ TakeResult

SpecPostings == InitQuery /\ [][NextPostings]_vars

\* the row ids (from 0) of the rows added with value v in column k
RowIDsWith(k, v) == {r \in 0..(Len(rows) - 1) : k \in DOMAIN rows[r + 1] /\ rows[r + 1][k] = v}

\* the postings by code: those of the writer, those of the store
WriterPostings == w.values

StorePostings ==
    LET codes == {key[2] : key \in {x \in DOMAIN db.kv : x[1] = "V"}}
    IN [code \in codes |-> FromBuffer(BucketGet(db, ValueKey(code))).bm]

\* the codes recorded in a schema
SchemaCodes(sch) == UNION {{sch[k][v] : v \in DOMAIN sch[k]} : k \in DOMAIN sch}

\* the postings ps are those of the rows
PostingsExact(ps) ==
    /\ \A k \in RowColumns : \A v \in RowValues(k) :
            /\ getValueIndex(k, v) \in DOMAIN ps
            /\ ps[getValueIndex(k, v)] = RowIDsWith(k, v)
    /\ \A code \in DOMAIN ps : ps[code] \subseteq 0..(w.nextRowID - 1)
    /\ \A k \in RowColumns : \A u, v \in RowValues(k) :
            u # v => ps[getValueIndex(k, u)] \cap ps[getValueIndex(k, v)] = {}
    /\ DOMAIN ps = SchemaCodes(w.schema)

\* C30: after any sequence of AddRow calls, and in the store written by a
\* flush, the posting of code(c, v) holds exactly the row ids whose row had
\* value v in column c; every posting is a subset of [0, nextRowID), the
\* postings of two values of one column are disjoint, and the posting codes
\* are the codes of the schema.
C30_PostingsExact ==
    /\ PostingsExact(WriterPostings)
    /\ db.has => PostingsExact(StorePostings)

\* C30 for rows without a zero byte in a column name or a value
C30_PostingsExactNoNul ==
    (\A i \in 1..Len(rows) : rows[i] \notin NulRows) => C30_PostingsExact

\* two rows of several columns were added and written
C30_Reached ==
    /\ db.has
    /\ Len(rows) = 2
    /\ Cardinality(DOMAIN StorePostings) >= 4

----------------------------------------------------------------------------
(* SpecFlush: WriteToBoltDatabase step by step, with errors and crashes *)

\* the number of rows of the long row stream: more postings than one
\* transaction of WriteToBoltDatabase holds
BigRows == 1001

\* the row counts at which WriteToBoltDatabase is called
FlushAt == {0, MaxRows, BigRows}

\* below this many remaining postings every key may be the next of the loop
MaxOrder == 2

\* the longest run of AddRow calls, or of loop iterations, taken as one step
StepLen == 50

\* strconv.Itoa(n) as bytes
RECURSIVE Itoa(_)
Itoa(n) == IF n < 10 THEN <<48 + n>> ELSE Itoa(n \div 10) \o <<48 + (n % 10)>>

\* the i-th row of the stream: every row has its own value in column "a"
StreamRow(i) == ("a" :> Itoa(i))

\* n calls of IndexWriter.AddRow with the next rows of the stream
RECURSIVE AddRows(_, _)
AddRows(wrt, n) ==
    IF n = 0 \/ wrt.nextRowID >= BigRows THEN wrt
    ELSE AddRows(IWAddRow(wrt, StreamRow(wrt.nextRowID)), n - 1)

\* the keys `range idx.values` may yield next
NextKeys(todo) == IF Cardinality(todo) <= MaxOrder THEN todo ELSE {CHOOSE k \in todo : TRUE}

\* up to n more iterations of the loop over idx.values, to the next
\* Commit at the latest
RECURSIVE WritePuts(_, _, _)
WritePuts(wrt, st, n) ==
    IF n = 0 \/ st.todo = {} \/ st.i % commitEvery = 0 THEN st
    ELSE WritePuts(wrt, WritePut(wrt, st, CHOOSE k \in st.todo : TRUE), n - 1)

\* the caller adds the next rows of the stream: one by one for the first
\* rows, in runs afterwards
FlushAddRow(n) ==
    /\ w.nextRowID < BigRows
    /\ n = 1 => w.nextRowID < MaxRows
    /\ wr.pc = "idle"
    /\ w' = AddRows(w, n)
    /\ lastOp' = [op |-> "AddRow", rowID |-> w'.nextRowID - 1]
    /\ UNCHANGED <<cache, rows, db, idx, xxhZero, drv, bw, wr, thr, mtx, closes>>

\* db.Begin(true) to the second bucket.Put
FlushBegin ==
    /\ wr.pc = "idle"
    /\ w.nextRowID \in FlushAt
    /\ LET st == WriteBegin(w, db)
       IN wr' = [pc |-> st.pc, tx |-> st.tx, i |-> st.i, todo |-> st.todo]
    /\ lastOp' = [op |-> "Begin"]
    /\ UNCHANGED <<cache, rows, w, db, idx, xxhZero, drv, bw, thr, mtx, closes>>

\* the next iterations of the loop over idx.values
FlushPut ==
    /\ wr.pc = "loop"
    /\ \E k \in NextKeys(wr.todo) :
        LET st0 == [pc |-> wr.pc, committed |-> db, tx |-> wr.tx, i |-> wr.i, todo |-> wr.todo]
            st == WritePuts(w, WritePut(w, st0, k), StepLen - 1)
        IN /\ wr' = [pc |-> st.pc, tx |-> st.tx, i |-> st.i, todo |-> st.todo]
           /\ db' = st.committed
    /\ lastOp' = [op |-> "Put"]
    /\ UNCHANGED <<cache, rows, w, idx, xxhZero, drv, bw, thr, mtx, closes>>

\* the tx.Commit after the loop
FlushCommit ==
    /\ wr.pc = "loop"
    /\ wr.todo = {}
    /\ LET st == WriteEnd([pc |-> wr.pc, committed |-> db, tx |-> wr.tx, i |-> wr.i, todo |-> wr.todo])
       IN /\ wr' = [pc |-> st.pc, tx |-> st.tx, i |-> st.i, todo |-> st.todo]
          /\ db' = st.committed
    /\ lastOp' = [op |-> "Commit"]
    /\ UNCHANGED <<cache, rows, w, idx, xxhZero, drv, bw, thr, mtx, closes>>

\* a store operation returns an error, or the process dies: the open
\* transaction is never committed
FlushInterrupt(how) ==
    /\ wr.pc = "loop"
    /\ wr' = [wr EXCEPT !.pc = how, !.tx = EmptyStore]
    /\ lastOp' = [op |-> how]
    /\ UNCHANGED <<cache, rows, w, db, idx, xxhZero, drv, bw, thr, mtx, closes>>

\* a reader opens what is committed
FlushOpen ==
    /\ wr.pc # "idle"
    /\ OpenIndex(FALSE, nullCache)

NextFlush ==
    \/ \E n \in {1, StepLen} : FlushAddRow(n)
    \/ FlushBegin
    \/ FlushPut
    \/ FlushCommit
    \/ \E how \in {"error", "crash"} : FlushInterrupt(how)
    \/ FlushOpen

SpecFlush == InitQuery /\ [][NextFlush]_vars

\* the store holds the complete index of the writer
Complete(store) ==
    /\ store.has
    /\ Cardinality(DOMAIN store.kv) = Cardinality(DOMAIN w.values) + 2
    /\ BucketGet(store, keySchema) = [ok |-> TRUE, val |-> GobEncode(w.schema)]
    /\ BucketGet(store, keyNextRowID) = [ok |-> TRUE, val |-> PutUint32(w.nextRowID)]
    /\ \A code \in DOMAIN w.values :
            BucketGet(store, ValueKey(code)) = [ok |-> TRUE, val |-> ToBytes(w.values[code])]

\* C9: at every instant of WriteToBoltDatabase, interrupted or not, the
\* committed store holds no index at all or the complete index, and a
\* reader never opens anything else.
C9_CrashAtomic ==
    /\ ~db.has \/ Complete(db)
    /\ idx.getter # "none" => Complete(idx.store)

----------------------------------------------------------------------------
(* SpecConc: goroutines calling Execute on one Index with an LRUCache *)

Threads == 1..MaxThreads

\* the rows of the index the goroutines query
SampleRows ==
    << ("a" :> V1) @@ ("b" :> V2) @@ ("c" :> V3) @@ ("d" :> V10),
       ("a" :> V2) @@ ("b" :> V2) >>

\* the expressions of the concurrent queries
ConcExprs == {Eq("a", V1), Eq("b", V2), Eq("a", V9)}

\* the IndexWriter after AddRow of the first n rows of rs
RECURSIVE WriterOf(_, _)
WriterOf(rs, n) ==
    IF n = 0 THEN NewIndexWriter
    ELSE CHOOSE wrt \in {IWAddRow(prev, rs[n]) : prev \in {WriterOf(rs, n - 1)}} : TRUE

IdleThread == [pc |-> "idle", e |-> Eq("", <<>>), bm |-> {}]

\* the threads inside LRUCache.Get or LRUCache.Put
InCache == {t \in Threads : thr[t].pc \in {"inGet", "inPut"}}

\* what a cache operation that overlaps another one may do: take effect,
\* have its writes lost, or end the process (fatal error: concurrent map
\* read and map write)
Outcomes(t) == IF InCache \ {t} = {} THEN {"applied"} ELSE {"applied", "lost", "fatal"}

Running == lastOp.op # "fatal"

ConcOthers == <<xxhZero, drv, rows, w, bw, db, wr, idx, mtx, closes>>

InitConc ==
    /\ \E m \in QueryCacheSizes : cache = NewLRUCache(m)
    /\ lastOp = NoOp
    /\ xxhZero = NoPair
    /\ drv = NoDriver
    /\ rows = SampleRows
    /\ w = WriterOf(SampleRows, Len(SampleRows))
    /\ bw = NewBigIndexWriter
    /\ db = WriteToBoltDatabase(w, EmptyStore)
    /\ wr = IdleWrite
    /\ idx = OpenIndexFromBoltDatabase(db, FALSE).idx
    /\ thr = [t \in Threads |-> IdleThread]
    /\ mtx = NoLocks
    /\ closes = 0

\* Execute: idx.mtx.RLock(), populateGroupBy of no columns, then
\* ExprEqual.eval up to the call of idx.cache.Get
ConcRLock(t, e) ==
    /\ Running
    /\ thr[t].pc = "idle"
    /\ thr' = [thr EXCEPT ![t] = [pc |-> IF e.col \in DOMAIN idx.schema THEN "locked" ELSE "ret",
                                  e |-> e, bm |-> {}]]
    /\ lastOp' = [op |-> "RLock", t |-> t]
    /\ UNCHANGED <<cache, ConcOthers>>

\* the thread enters LRUCache.Get
ConcEnterGet(t) ==
    /\ Running
    /\ thr[t].pc = "locked"
    /\ thr' = [thr EXCEPT ![t].pc = "inGet"]
    /\ lastOp' = [op |-> "Get", t |-> t]
    /\ UNCHANGED <<cache, ConcOthers>>

\* LRUCache.Get returns
ConcExitGet(t) ==
    /\ Running
    /\ thr[t].pc = "inGet"
    /\ \E how \in Outcomes(t) :
        LET r == LRUGet(cache, cacheKey(thr[t].e))
        IN CASE how = "applied" ->
                    /\ cache' = r.cache
                    /\ thr' = [thr EXCEPT ![t].pc = IF r.found THEN "ret" ELSE "miss",
                                          ![t].bm = r.bm]
                    /\ lastOp' = [op |-> "Got", t |-> t]
             [] how = "lost" ->
                    /\ cache' = cache
                    /\ thr' = [thr EXCEPT ![t].pc = IF r.found THEN "ret" ELSE "miss",
                                          ![t].bm = r.bm]
                    /\ lastOp' = [op |-> "Got", t |-> t]
             [] how = "fatal" ->
                    /\ UNCHANGED <<cache, thr, mtx, closes>>
                    /\ lastOp' = [op |-> "fatal"]
    /\ UNCHANGED ConcOthers

\* idx.values.GetCol(valueIdx), a nil bitmap or an error giving roaring.New()
ConcGetCol(t) ==
    /\ Running
    /\ thr[t].pc = "miss"
    /\ LET r == GetCol(idx, getValueIndex(thr[t].e.col, thr[t].e.val))
       IN thr' = [thr EXCEPT ![t].pc = "col",
                             ![t].bm = IF r.err # "nil" \/ r.isNil THEN {} ELSE r.bm]
    /\ lastOp' = [op |-> "GetCol", t |-> t]
    /\ UNCHANGED <<cache, ConcOthers>>

\* the thread enters LRUCache.Put
ConcEnterPut(t) ==
    /\ Running
    /\ thr[t].pc = "col"
    /\ thr' = [thr EXCEPT ![t].pc = "inPut"]
    /\ lastOp' = [op |-> "Put", t |-> t]
    /\ UNCHANGED <<cache, ConcOthers>>

\* LRUCache.Put returns
ConcExitPut(t) ==
    /\ Running
    /\ thr[t].pc = "inPut"
    /\ \E how \in Outcomes(t) :
        CASE how = "applied" ->
                /\ cache' = LRUPut(cache, cacheKey(thr[t].e), thr[t].bm)
                /\ thr' = [thr EXCEPT ![t].pc = "ret"]
                /\ lastOp' = [op |-> "PutDone", t |-> t]
          [] how = "lost" ->
                /\ cache' = cache
                /\ thr' = [thr EXCEPT ![t].pc = "ret"]
                /\ lastOp' = [op |-> "PutDone", t |-> t]
          [] how = "fatal" ->
                /\ UNCHANGED <<cache, thr, mtx, closes>>
                /\ lastOp' = [op |-> "fatal"]
    /\ UNCHANGED ConcOthers

\* Execute returns: the deferred idx.mtx.RUnlock()
ConcRUnlock(t) ==
    /\ Running
    /\ thr[t].pc = "ret"
    /\ thr' = [thr EXCEPT ![t] = IdleThread]
    /\ lastOp' = [op |-> "RUnlock", t |-> t, Count |-> Cardinality(thr[t].bm)]
    /\ UNCHANGED <<cache, ConcOthers>>

NextConc ==
    \E t \in Threads :
        \/ \E e \in ConcExprs : ConcRLock(t, e)
        \/ ConcEnterGet(t)
        \/ ConcExitGet(t)
        \/ ConcGetCol(t)
        \/ ConcEnterPut(t)
        \/ ConcExitPut(t)
        \/ ConcRUnlock(t)

SpecConc == InitConc /\ [][NextConc]_vars

\* C10: with concurrent Execute calls on an Index with an LRUCache, no two
\* threads are inside a cache Get or Put at the same time.
C10_CacheMutex == Cardinality(InCache) <= 1

----------------------------------------------------------------------------
(* SpecAdd: goroutines calling AddRow on one IndexWriter or BigIndexWriter *)

\* the number of AddRow calls one goroutine makes
MaxCalls == 2

\* the rows of the concurrent AddRow calls
AddRowChoices == {("a" :> V1) @@ ("b" :> V2), ("a" :> V2) @@ ("b" :> V2)}

Writers == {"iw", "big"}

\* a Lock that never waits
LockFreeAlways(m, wk) == TRUE

\* idx.mtx.Lock() can return: nobody holds the mutex
LockFree(m, wk) == m[wk] = 0

\* a goroutine that is not inside AddRow of the writer wk; calls: the
\* (row, row id) of its calls that have returned
IdleAdder(wk) == [pc |-> "idle", wk |-> wk, row |-> <<>>, rowID |-> 0, todo |-> {}, calls |-> <<>>]

NextRowIDOf(wk) == IF wk = "iw" THEN w.nextRowID ELSE bw.nextRowID

InitAdd ==
    /\ cache = nullCache
    /\ lastOp = NoOp
    /\ xxhZero = NoPair
    /\ drv = NoDriver
    /\ rows = <<>>
    /\ w = NewIndexWriter
    /\ bw = NewBigIndexWriter
    /\ db = EmptyStore
    /\ wr = IdleWrite
    /\ idx = NoIndex
    /\ \E wk \in Writers : thr = [t \in Threads |-> IdleAdder(wk)]
    /\ mtx = NoLocks
    /\ closes = 0

AddOthers == <<cache, xxhZero, drv, rows, db, wr, idx, closes>>

\* AddRow: idx.mtx.Lock()
AddLock(t, row) ==
    /\ thr[t].pc = "idle"
    /\ Len(thr[t].calls) < MaxCalls
    /\ LockFree(mtx, thr[t].wk)
    /\ mtx' = [mtx EXCEPT ![thr[t].wk] = t]
    /\ thr' = [thr EXCEPT ![t].pc = "locked", ![t].row = row]
    /\ lastOp' = [op |-> "Lock", t |-> t]
    /\ UNCHANGED <<w, bw, AddOthers>>

\* rowID := idx.nextRowID
AddReadRowID(t) ==
    /\ thr[t].pc = "locked"
    /\ thr' = [thr EXCEPT ![t].pc = "loop", ![t].rowID = NextRowIDOf(thr[t].wk),
                          ![t].todo = DOMAIN thr[t].row]
    /\ lastOp' = [op |-> "rowID", t |-> t]
    /\ UNCHANGED <<w, bw, mtx, AddOthers>>

\* one iteration of `for k, v := range values`
AddColumn(t) ==
    /\ thr[t].pc = "loop"
    /\ \E k \in thr[t].todo :
        /\ IF thr[t].wk = "iw"
           THEN w' = IWAddCols(w, thr[t].row, {k}, thr[t].rowID) /\ bw' = bw
           ELSE bw' = BigAddCols(bw, thr[t].row, {k}, thr[t].rowID) /\ w' = w
        /\ thr' = [thr EXCEPT ![t].todo = @ \ {k}]
    /\ lastOp' = [op |-> "column", t |-> t]
    /\ UNCHANGED <<mtx, AddOthers>>

\* after the loop: the scratch Commit of BigIndexWriter every 1000 rows, and
\* the deferred idx.nextRowID++
AddIncrement(t) ==
    /\ thr[t].pc = "loop"
    /\ thr[t].todo = {}
    /\ IF thr[t].wk = "iw"
       THEN w' = [w EXCEPT !.nextRowID = @ + 1] /\ bw' = bw
       ELSE /\ bw' = [bw EXCEPT !.temp = IF thr[t].rowID > 0 /\ thr[t].rowID % tempCommitEvery = 0
                                          THEN bw.tempTx ELSE @,
                                !.nextRowID = @ + 1]
            /\ w' = w
    /\ thr' = [thr EXCEPT ![t].pc = "unlock"]
    /\ lastOp' = [op |-> "nextRowID++", t |-> t]
    /\ UNCHANGED <<mtx, AddOthers>>

\* the deferred idx.mtx.Unlock(); AddRow returns rowID
AddUnlock(t) ==
    /\ thr[t].pc = "unlock"
    /\ mtx' = [mtx EXCEPT ![thr[t].wk] = 0]
    /\ thr' = [thr EXCEPT ![t] = [IdleAdder(thr[t].wk) EXCEPT
                    !.calls = Append(thr[t].calls, [row |-> thr[t].row, rowID |-> thr[t].rowID])]]
    /\ lastOp' = [op |-> "AddRow", rowID |-> thr[t].rowID]
    /\ UNCHANGED <<w, bw, AddOthers>>

NextAdd ==
    \E t \in Threads :
        \/ \E row \in AddRowChoices : AddLock(t, row)
        \/ AddReadRowID(t)
        \/ AddColumn(t)
        \/ AddIncrement(t)
        \/ AddUnlock(t)

SpecAdd == InitAdd /\ [][NextAdd]_vars

\* the writer of this behaviour
TheWriter == thr[1].wk

\* the AddRow calls that have returned
Calls ==
    UNION {{[t |-> t, i |-> i, row |-> thr[t].calls[i].row, rowID |-> thr[t].calls[i].rowID] :
                i \in 1..Len(thr[t].calls)} : t \in Threads}

\* the row ids the writer holds under the code of (k, v)
RowIDsUnder(k, v) ==
    LET code == getValueIndex(k, v)
    IN IF TheWriter = "iw"
       THEN IF code \in DOMAIN w.values THEN w.values[code] ELSE {}
       ELSE {e[2] : e \in {x \in bw.tempTx : x[1] = code}}

\* no goroutine is inside AddRow
Quiet == \A t \in Threads : thr[t].pc = "idle"

\* C11: concurrent AddRow calls on one writer are serialized: the returned
\* row ids are pairwise distinct and are exactly 0..n-1, nextRowID ends at
\* n, and each call's row id, and no other, is recorded under the codes of
\* its own (column, value) pairs.
C11_AddRowSerialized ==
    /\ \A c1, c2 \in Calls : c1.rowID = c2.rowID => c1 = c2
    /\ Quiet =>
        /\ {c.rowID : c \in Calls} = 0..(Cardinality(Calls) - 1)
        /\ NextRowIDOf(TheWriter) = Cardinality(Calls)
        /\ \A k \in {"a", "b"}, v \in {V1, V2} :
                RowIDsUnder(k, v)
                    = {c.rowID : c \in {x \in Calls : k \in DOMAIN x.row /\ x.row[k] = v}}

\* both goroutines have made all their calls on the BigIndexWriter, and a
\* call of goroutine 2 got a smaller row id than one of goroutine 1
C11_Witness ==
    /\ TheWriter = "big"
    /\ Quiet
    /\ Cardinality(Calls) = MaxThreads * MaxCalls
    /\ \E c1, c2 \in Calls : c1.t = 1 /\ c2.t = 2 /\ c2.rowID < c1.rowID

----------------------------------------------------------------------------
(* SpecClose: goroutines calling Close on one Index *)

\* a goroutine that is not inside Close; calls: what its calls found idx.db
\* to be ("nil": returned nil at once, "set": went on to close the store)
IdleCloser == [pc |-> "idle", calls |-> <<>>]

InitClose ==
    /\ cache = nullCache
    /\ lastOp = NoOp
    /\ xxhZero = NoPair
    /\ drv = NoDriver
    /\ rows = SampleRows
    /\ w = WriterOf(SampleRows, Len(SampleRows))
    /\ bw = NewBigIndexWriter
    /\ db = WriteToBoltDatabase(w, EmptyStore)
    /\ wr = IdleWrite
    /\ \E preload \in BOOLEAN : idx = OpenIndexFromBoltDatabase(db, preload).idx
    /\ thr = [t \in Threads |-> IdleCloser]
    /\ mtx = NoLocks
    /\ closes = 0

CloseOthers == <<cache, xxhZero, drv, rows, w, bw, db, wr, mtx>>

\* Close: if idx.db == nil { return nil }
CloseCheck(t) ==
    /\ Running
    /\ thr[t].pc = "idle"
    /\ Len(thr[t].calls) < MaxCalls
    /\ thr' = [thr EXCEPT ![t].pc = IF idx.hasDb THEN "close" ELSE "ret",
                          ![t].calls = Append(@, IF idx.hasDb THEN "set" ELSE "nil")]
    /\ lastOp' = [op |-> "Close", t |-> t]
    /\ UNCHANGED <<idx, closes, CloseOthers>>

\* err := idx.db.Close(): a nil idx.db is a nil pointer dereference in
\* bbolt.DB.Close
CloseStore(t) ==
    /\ Running
    /\ thr[t].pc = "close"
    /\ IF idx.hasDb
       THEN /\ closes' = closes + 1
            /\ idx' = [idx EXCEPT !.open = FALSE]
            /\ thr' = [thr EXCEPT ![t].pc = "assign"]
            /\ lastOp' = [op |-> "db.Close", t |-> t]
       ELSE /\ lastOp' = [op |-> "fatal"]
            /\ UNCHANGED <<idx, closes, thr>>
    /\ UNCHANGED CloseOthers

\* idx.db = nil
CloseAssign(t) ==
    /\ Running
    /\ thr[t].pc = "assign"
    /\ idx' = [idx EXCEPT !.hasDb = FALSE]
    /\ thr' = [thr EXCEPT ![t].pc = "ret"]
    /\ lastOp' = [op |-> "idx.db = nil", t |-> t]
    /\ UNCHANGED <<closes, CloseOthers>>

\* Close returns
CloseReturn(t) ==
    /\ Running
    /\ thr[t].pc = "ret"
    /\ thr' = [thr EXCEPT ![t].pc = "idle"]
    /\ lastOp' = [op |-> "Closed", t |-> t]
    /\ UNCHANGED <<idx, closes, CloseOthers>>

NextClose ==
    \E t \in Threads :
        \/ CloseCheck(t)
        \/ CloseStore(t)
        \/ CloseAssign(t)
        \/ CloseReturn(t)

SpecClose == InitClose /\ [][NextClose]_vars

\* the Close calls that have passed the test of idx.db
CloseCalls == UNION {{<<t, i>> : i \in 1..Len(thr[t].calls)} : t \in Threads}

\* C12: for any number of Close calls, sequential or concurrent, the
\* store's Close is invoked exactly once and every other call returns nil
\* without touching the store.
C12_CloseOnce ==
    /\ Running
    /\ closes <= 1
    /\ Cardinality({c \in CloseCalls : thr[c[1]].calls[c[2]] = "set"}) <= 1
    /\ (\E t \in Threads : thr[t].pc = "idle" /\ thr[t].calls # <<>>) => closes = 1

----------------------------------------------------------------------------
(* SpecLife: an index is opened, queried, closed, and queried again *)

\* the rows of the index: none, or the sample rows
LifeRows == {<<>>, SampleRows}

\* the caches of the index
LifeCaches == {nullCache} \cup {NewLRUCache(m) : m \in QueryCacheSizes}

\* Eq on an observed value and on a value no row has, And and Or without
\* children, a Not, and a group-by
LifeQueries ==
    {NewQuery(e, <<>>) : e \in {Eq("a", V1), Eq("a", V9), And(<<>>), Or(<<>>), Not(Eq("b", V2))}}
        \cup {NewQuery(Eq("b", V2), <<"a">>)}

InitLife ==
    /\ cache = nullCache
    /\ lastOp = NoOp
    /\ xxhZero = NoPair
    /\ drv = NoDriver
    /\ rows \in LifeRows
    /\ w = WriterOf(rows, Len(rows))
    /\ bw = NewBigIndexWriter
    /\ db = WriteToBoltDatabase(w, EmptyStore)
    /\ wr = IdleWrite
    /\ idx = NoIndex
    /\ thr = <<>>
    /\ mtx = NoLocks
    /\ closes = 0

\* Index.Close by a caller who makes one call at a time: the number of
\* calls of the store's Close, and the index afterwards
Close(ix, n) ==
    IF ~ix.hasDb THEN [idx |-> ix, closes |-> n]
    ELSE [idx |-> [ix EXCEPT !.open = FALSE, !.hasDb = FALSE], closes |-> n + 1]

DoClose ==
    /\ idx.getter # "none"
    /\ lastOp.op # "Execute"
    /\ LET r == Close(idx, closes)
       IN idx' = r.idx /\ closes' = r.closes
    /\ lastOp' = [op |-> "Close"]
    /\ UNCHANGED <<cache, xxhZero, drv, rows, w, bw, db, wr, thr, mtx>>

NextLife ==
    \/ \E preload \in BOOLEAN, c \in LifeCaches : OpenIndex(preload, c)
    \/ \E q \in LifeQueries : DoExecute(q)
    \/ TakeResult
    \/ DoClose

SpecLife == InitLife /\ [][NextLife]_vars

\* C13: Execute on an Index after Close has returned yields an error, with
\* either column getter; it never returns a Result.
C13_ClosedIsError ==
    (lastOp.op = "Execute" /\ ~idx.hasDb) => lastOp.err # "nil"

\* the Eq nodes of an expression
RECURSIVE EqNodes(_)
EqNodes(e) ==
    IF e.op = "eq" THEN {e} ELSE UNION {EqNodes(e.kids[i]) : i \in 1..Len(e.kids)}

\* the value codes Execute(q) asks the column getter for when nothing is cached
CodesRead(q) ==
    {getValueIndex(e.col, e.val) : e \in EqNodes(q.Expr)}
        \cup UNION {{idx.schema[q.GroupBy[i]][v] : v \in DOMAIN idx.schema[q.GroupBy[i]]} :
                        i \in 1..Len(q.GroupBy)}

\* the getter reports a failure that is not a missing posting
ReadFailure(code) ==
    /\ GetCol(idx, code).err # "nil"
    /\ ~(idx.open /\ ~BucketGet(idx.store, ValueKey(code)).ok)

\* C14: if the column getter reports a store read failure while Execute
\* evaluates an Eq node or expands a group-by value, Execute returns an
\* error instead of a Result.
C14_ReadFailurePropagates ==
    (/\ lastOp.op = "Execute"
     /\ cache.kind = "null"
     /\ ColumnsOf(lastOp.q.Expr) \subseteq DOMAIN idx.schema
     /\ \A i \in 1..Len(lastOp.q.GroupBy) : lastOp.q.GroupBy[i] \in DOMAIN idx.schema
     /\ \E code \in CodesRead(lastOp.q) : ReadFailure(code))
        => lastOp.err # "nil"

\* an Execute of Eq(column, value) with a schema column and a value that no
\* row has in it
UnknownValue ==
    /\ lastOp.op = "Execute"
    /\ lastOp.q.Expr.op = "eq"
    /\ lastOp.q.Expr.col \in DOMAIN idx.schema
    /\ lastOp.q.Expr.val \notin DOMAIN idx.schema[lastOp.q.Expr.col]

\* C16: Eq on a schema column with a value never observed at build time
\* yields Count 0 and no error, with either column getter and with or
\* without an LRU cache.
C16_UnknownValueIsEmpty == UnknownValue => (Executed /\ lastOp.Count = 0)

\* the case on an open, preloaded index whose LRU cache holds other entries
C16_Witness ==
    /\ UnknownValue
    /\ idx.open
    /\ idx.getter = "preloaded"
    /\ cache.kind = "lru"
    /\ Len(cache.lruList) >= 2
    /\ lastOp.Count = 0

\* some And or Or node of the expression has no children
RECURSIVE HasEmptyNode(_)
HasEmptyNode(e) ==
    \/ e.op \in {"and", "or"} /\ e.kids = <<>>
    \/ \E i \in 1..Len(e.kids) : HasEmptyNode(e.kids[i])

\* C17: Execute of a query with an And or Or node without children returns
\* an error, never a Result.
C17_EmptyListIsError ==
    (lastOp.op = "Execute" /\ HasEmptyNode(lastOp.q.Expr)) => lastOp.err # "nil"

\* C18: on an index built from zero rows every query returns Count 0 and
\* no groups, without error.
C18_EmptyIndex ==
    (lastOp.op = "Execute" /\ rows = <<>>) =>
        (Executed /\ lastOp.Count = 0 /\ lastOp.Groups = <<>>)

----------------------------------------------------------------------------
(* SpecParser: the query language of cmd/updog: ParseQuery and
   ReplacePlaceholders *)

MaxWords == 5
MaxArgs == 3

\* the lexemes of a query text: a comparison `col = "v"`, a bare field, and
\* the one-character tokens
Lexemes == {"cmp", "fld", "&", "|", "^", "(", ")", ";", ","}

Texts == UNION {[1..n -> Lexemes] : n \in 0..MaxWords}

item(typ, val) == [typ |-> typ, val |-> val]

itemEOF == item("itemEOF", <<>>)

\* the value lexeme at position i of a text: a quoted digit
QuotedValue(i) == <<34, 48 + i, 34>>

\* the field lexeme at position i of a text: one of the column names
FieldAt(i) == ColNames[((i - 1) % Len(ColNames)) + 1]

\* the items the lexer emits for the lexeme at position i
lexText(lx, i) ==
    CASE lx = "cmp" -> <<item("itemField", FieldAt(i)), item("itemEqual", "="),
                         item("itemValue", QuotedValue(i))>>
      [] lx = "fld" -> <<item("itemField", FieldAt(i))>>
      [] lx = "&" -> <<item("itemAnd", "&")>>
      [] lx = "|" -> <<item("itemOr", "|")>>
      [] lx = "^" -> <<item("itemNot", "^")>>
      [] lx = "(" -> <<item("itemOpenParen", "(")>>
      [] lx = ")" -> <<item("itemCloseParen", ")")>>
      [] lx = ";" -> <<item("itemSemicolon", ";")>>
      [] lx = "," -> <<item("itemComma", ",")>>

\* the items of a text, in order
RECURSIVE lex(_, _)
lex(text, i) ==
    IF i > Len(text) THEN <<>> ELSE lexText(text[i], i) \o lex(text, i + 1)

\* the next item of the parser at position p: the lexer ends with itemEOF
peek(ts, p) == IF p <= Len(ts) THEN ts[p] ELSE itemEOF

\* strings.ReplaceAll(s, `""`, `"`)
RECURSIVE ReplaceQuotes(_)
ReplaceQuotes(s) ==
    IF Len(s) < 2 THEN s
    ELSE IF s[1] = 34 /\ s[2] = 34
         THEN <<34>> \o ReplaceQuotes(SubSeq(s, 3, Len(s)))
         ELSE <<s[1]>> \o ReplaceQuotes(Tail(s))

decodeString(s) ==
    IF Len(s) < 2 THEN s
    ELSE LET s1 == IF s[1] = 34 THEN Tail(s) ELSE s
             s2 == IF s1[Len(s1)] = 34 THEN SubSeq(s1, 1, Len(s1) - 1) ELSE s1
         IN ReplaceQuotes(s2)

\* a Query_Expression_Equal of the protocol: a column, a value and the
\* ordinal of a placeholder (0 for none)
ProtoEq(c, v, n) == [op |-> "eq", col |-> c, val |-> v, kids |-> <<>>, Placeholder |-> n]

\* p.errorf: the panic that parser.recover turns into the error of ParseQuery
parseError == [ok |-> FALSE, e |-> And(<<>>), exprs |-> <<>>, fields |-> <<>>, pos |-> 0]

\* p.errorf at the item of position p, the last one the parser has taken
\* from the lexer
parseErrorAt(p) == [parseError EXCEPT !.pos = p]

parsed(e, p) == [ok |-> TRUE, e |-> e, exprs |-> <<>>, fields |-> <<>>, pos |-> p]

parseComparison(ts, p) ==
    IF peek(ts, p + 1).typ # "itemEqual" THEN parseErrorAt(p + 1)
    ELSE IF peek(ts, p + 2).typ # "itemValue" THEN parseErrorAt(p + 2)
    ELSE parsed(ProtoEq(ts[p].val, decodeString(ts[p + 2].val), 0), p + 3)

RECURSIVE parseExpr(_, _)
RECURSIVE parseSimpleExpr(_, _)
RECURSIVE parseChain(_, _, _, _)

parseGroupedExpr(ts, p) ==
    LET rs == {parseExpr(ts, p + 1)}
    IN CHOOSE out \in {IF ~r.ok THEN r
                       ELSE IF peek(ts, r.pos).typ # "itemCloseParen" THEN parseErrorAt(r.pos)
                       ELSE parsed(r.e, r.pos + 1) : r \in rs} : TRUE

parseSimpleExpr(ts, p) ==
    CASE peek(ts, p).typ = "itemOpenParen" -> parseGroupedExpr(ts, p)
      [] peek(ts, p).typ = "itemNot" ->
            CHOOSE out \in {IF ~r.ok THEN r ELSE parsed(Not(r.e), r.pos)
                            : r \in {parseSimpleExpr(ts, p + 1)}} : TRUE
      [] peek(ts, p).typ = "itemField" -> parseComparison(ts, p)
      [] OTHER -> parseErrorAt(p)

\* the loop of parseAndExpr and of parseOrExpr: while the next item is typ,
\* skip it and append the next simple expression
parseChain(ts, p, typ, exprs) ==
    IF peek(ts, p).typ # typ THEN [parsed(And(<<>>), p) EXCEPT !.exprs = exprs]
    ELSE CHOOSE out \in {IF ~r.ok THEN r
                         ELSE parseChain(ts, r.pos, typ, Append(exprs, r.e))
                         : r \in {parseSimpleExpr(ts, p + 1)}} : TRUE

parseAndExpr(ts, p, firstExpr) ==
    CHOOSE out \in {IF ~r.ok THEN r ELSE parsed(And(r.exprs), r.pos)
                    : r \in {parseChain(ts, p, "itemAnd", <<firstExpr>>)}} : TRUE

parseOrExpr(ts, p, firstExpr) ==
    CHOOSE out \in {IF ~r.ok THEN r ELSE parsed(Or(r.exprs), r.pos)
                    : r \in {parseChain(ts, p, "itemOr", <<firstExpr>>)}} : TRUE

parseExpr(ts, p) ==
    CHOOSE out \in {IF ~r.ok THEN r
                    ELSE CASE peek(ts, r.pos).typ = "itemAnd" -> parseAndExpr(ts, r.pos, r.e)
                           [] peek(ts, r.pos).typ = "itemOr" -> parseOrExpr(ts, r.pos, r.e)
                           [] OTHER -> r
                    : r \in {parseSimpleExpr(ts, p)}} : TRUE

\* the loop of parseFieldList: while the next item is a comma, skip it and
\* append the field after it
RECURSIVE parseFields(_, _, _)
parseFields(ts, p, fields) ==
    IF peek(ts, p).typ # "itemComma" THEN [parsed(And(<<>>), p) EXCEPT !.fields = fields]
    ELSE IF peek(ts, p + 1).typ # "itemField" THEN parseErrorAt(p + 1)
    ELSE parseFields(ts, p + 2, Append(fields, ts[p + 1].val))

parseFieldList(ts, p) ==
    IF peek(ts, p).typ # "itemField" THEN parseErrorAt(p)
    ELSE parseFields(ts, p + 1, <<ts[p].val>>)

\* parser.parse: query ::= expr [ ';' field-list ]
parse(ts) ==
    CHOOSE out \in
        {IF ~r.ok THEN [pq |-> "nil", err |-> "syntax"]
         ELSE IF peek(ts, r.pos).typ = "itemSemicolon"
              THEN CHOOSE o2 \in {IF ~g.ok THEN [pq |-> "nil", err |-> "syntax"]
                                  ELSE [pq |-> [Expr |-> r.e, GroupBy |-> g.fields],
                                        err |-> "nil", rest |-> g.pos]
                                  : g \in {parseFieldList(ts, r.pos + 1)}} : TRUE
              ELSE [pq |-> [Expr |-> r.e, GroupBy |-> <<>>], err |-> "nil", rest |-> r.pos]
         : r \in {parseExpr(ts, 1)}} : TRUE

ParseQuery(text) == parse(lex(text, 1))

\* the visit of ReplacePlaceholders at the nodes of e in the order of Walk:
\* the expression afterwards, and whether values[Placeholder-1] was out of
\* range (a runtime panic, which ends the walk)
RECURSIVE walkReplace(_, _)
RECURSIVE walkReplaceAll(_, _, _)
walkReplace(e, values) ==
    IF e.op = "eq"
    THEN IF e.Placeholder > 0
         THEN IF e.Placeholder - 1 < Len(values)
              THEN [e |-> ProtoEq(e.col, values[e.Placeholder], 0), panic |-> FALSE]
              ELSE [e |-> e, panic |-> TRUE]
         ELSE [e |-> e, panic |-> FALSE]
    ELSE CHOOSE out \in {[e |-> [e EXCEPT !.kids = r.kids], panic |-> r.panic]
                         : r \in {walkReplaceAll(e.kids, 1, values)}} : TRUE

walkReplaceAll(kids, i, values) ==
    IF i > Len(kids) THEN [kids |-> kids, panic |-> FALSE]
    ELSE CHOOSE out \in {IF r.panic THEN [kids |-> kids, panic |-> TRUE]
                         ELSE walkReplaceAll([kids EXCEPT ![i] = r.e], i + 1, values)
                         : r \in {walkReplace(kids[i], values)}} : TRUE

\* ReplacePlaceholders(query, values): it has no error result
ReplacePlaceholders(query, values) ==
    CHOOSE out \in {[q |-> [query EXCEPT !.Expr = r.e], panic |-> r.panic]
                    : r \in {walkReplace(query.Expr, values)}} : TRUE

\* convert.ToQuery
RECURSIVE toExpr(_)
toExpr(pbe) ==
    IF pbe.op = "eq" THEN Eq(pbe.col, pbe.val)
    ELSE [pbe EXCEPT !.kids = [i \in 1..Len(pbe.kids) |-> toExpr(pbe.kids[i])]]

ToQuery(pbq) == NewQuery(toExpr(pbq.Expr), pbq.GroupBy)

\* numInput: the largest placeholder ordinal of the query
RECURSIVE maxPlaceholder(_)
maxPlaceholder(e) ==
    IF e.op = "eq" THEN e.Placeholder
    ELSE LET ns == {maxPlaceholder(e.kids[i]) : i \in 1..Len(e.kids)} \cup {0}
         IN CHOOSE n \in ns : \A m \in ns : m <= n

numInput(q) == maxPlaceholder(q.Expr)

\* fileStmt.query: substitute, convert, execute
StmtQuery(q, values, ix, c) ==
    CHOOSE out \in
        {IF r.panic THEN [err |-> "nil", panic |-> TRUE, Count |-> 0, Groups |-> <<>>, cache |-> c]
         ELSE CHOOSE o2 \in {[err |-> x.err, panic |-> x.panic, Count |-> x.Count,
                              Groups |-> x.Groups, cache |-> x.cache]
                             : x \in {Execute(ix, ToQuery(r.q), c)}} : TRUE
         : r \in {ReplacePlaceholders(q, values)}} : TRUE

\* prepared statements with placeholders, as the placeholder tests of the
\* parser expect them
PlaceholderExprs ==
    { ProtoEq("a", V1, 0),
      ProtoEq("a", <<>>, 1),
      And(<<ProtoEq("a", <<>>, 1), ProtoEq("b", <<>>, 2)>>),
      Or(<<ProtoEq("a", V1, 0), ProtoEq("b", <<>>, 2)>>),
      Or(<<ProtoEq("a", <<>>, 1),
           And(<<ProtoEq("b", <<>>, 2), Not(ProtoEq("c", <<>>, 3))>>)>>) }

PlaceholderQueries ==
    {[Expr |-> e, GroupBy |-> g] : e \in PlaceholderExprs, g \in {<<>>, <<"b">>}}

ArgValues == UNION {[1..n -> {V1, V2}] : n \in 0..MaxArgs}

\* an index of the sample rows, opened with default options
InitParser ==
    /\ cache = nullCache
    /\ lastOp = NoOp
    /\ xxhZero = NoPair
    /\ drv = NoDriver
    /\ rows = SampleRows
    /\ w = WriterOf(rows, Len(rows))
    /\ bw = NewBigIndexWriter
    /\ db = WriteToBoltDatabase(w, EmptyStore)
    /\ wr = IdleWrite
    /\ idx = OpenIndexFromBoltDatabase(db, FALSE).idx
    /\ thr = <<>>
    /\ mtx = NoLocks
    /\ closes = 0

ParserOthers == <<xxhZero, drv, rows, w, bw, db, wr, idx, thr, mtx, closes>>

\* ParseQuery(text) by a caller who makes one call at a time
DoParseQuery ==
    /\ lastOp.op = "none"
    /\ \E text \in Texts :
          LET r == ParseQuery(text)
          IN lastOp' = [op |-> "ParseQuery", text |-> text, pq |-> r.pq, err |-> r.err]
    /\ UNCHANGED <<cache, ParserOthers>>

\* ReplacePlaceholders(q, values)
DoReplacePlaceholders ==
    /\ lastOp.op = "none"
    /\ \E q \in PlaceholderQueries, values \in ArgValues :
          LET r == ReplacePlaceholders(q, values)
          IN lastOp' = [op |-> "ReplacePlaceholders", query |-> q, values |-> values,
                        q |-> r.q, err |-> "nil", panic |-> r.panic]
    /\ UNCHANGED <<cache, ParserOthers>>

\* fileStmt.Query of the prepared statement q with the arguments values
DoStmtQuery ==
    /\ lastOp.op = "none"
    /\ \E q \in PlaceholderQueries, values \in ArgValues :
          LET r == StmtQuery(q, values, idx, cache)
          IN /\ cache' = r.cache
             /\ lastOp' = [op |-> "Query", query |-> q, values |-> values,
                           err |-> r.err, panic |-> r.panic, Count |-> r.Count]
    /\ UNCHANGED ParserOthers

\* the caller has read the result and is ready for its next call
ParserReturn ==
    /\ lastOp.op \in {"ParseQuery", "ReplacePlaceholders", "Query", "QueryToString", "formatString"}
    /\ lastOp' = NoOp
    /\ UNCHANGED <<cache, ParserOthers>>

NextParser ==
    \/ DoParseQuery
    \/ DoReplacePlaceholders
    \/ DoStmtQuery
    \/ ParserReturn

SpecParser == InitParser /\ [][NextParser]_vars

\* C19: substitution into a query with a placeholder $n and fewer than n
\* values reports an error to the caller, in ReplacePlaceholders and in the
\* statement's Query, and does not panic.
C19_MissingArgIsError ==
    (/\ lastOp.op \in {"ReplacePlaceholders", "Query"}
     /\ numInput(lastOp.query) > Len(lastOp.values))
        => (lastOp.err # "nil" /\ ~lastOp.panic)

\* a chain of the text mixes `&` and `|` at one level of parentheses
RECURSIVE Depth(_, _)
Depth(text, i) ==
    IF i = 0 THEN 0
    ELSE Depth(text, i - 1) + (CASE text[i] = "(" -> 1 [] text[i] = ")" -> -1 [] OTHER -> 0)

\* the lexemes i and j lie in one chain: they are at one depth, no
\* parenthesis of that depth closes between them and no group-by list starts
SameChain(text, i, j) ==
    /\ Depth(text, i) = Depth(text, j)
    /\ \A k \in i..j : Depth(text, k) >= Depth(text, i) /\ text[k] # ";"

\* the lexeme i is an operator between two operands
Infix(text, i) ==
    /\ 1 < i
    /\ i < Len(text)
    /\ text[i - 1] \in {"cmp", ")"}
    /\ text[i + 1] \in {"cmp", "^", "("}

MixedChain(text) ==
    \E i, j \in 1..Len(text) :
        /\ i < j
        /\ {text[i], text[j]} = {"&", "|"}
        /\ Infix(text, i)
        /\ Infix(text, j)
        /\ SameChain(text, i, j)

\* C20: ParseQuery returns an error, and no query, for every text in which
\* `&` and `|` occur in one chain without parentheses between them.
C20_MixedChainIsError ==
    (lastOp.op = "ParseQuery" /\ MixedChain(lastOp.text))
        => (lastOp.err # "nil" /\ lastOp.pq = "nil")

----------------------------------------------------------------------------
(* SpecFormat: QueryToString of a parsed query, and the parse of its text *)

MaxNest == 7

\* a formatter that leaves the quotes of the value as they are
DoubleQuotesNever(s) == s

\* strings.ReplaceAll(s, `"`, `""`)
RECURSIVE DoubleQuotes(_)
DoubleQuotes(s) ==
    IF s = <<>> THEN <<>>
    ELSE (IF s[1] = 34 THEN <<34, 34>> ELSE <<s[1]>>) \o DoubleQuotes(Tail(s))

formatString(s) == <<34>> \o DoubleQuotes(s) \o <<34>>

\* the text a formatter writes, as the items the lexer reads from it: a `$n`
\* is no token of this lexer, which emits itemError for it
equalExprToString(expr) ==
    IF expr.Placeholder > 0
    THEN <<item("itemField", expr.col), item("itemEqual", "="), item("itemError", "$")>>
    ELSE <<item("itemField", expr.col), item("itemEqual", "="),
           item("itemValue", formatString(expr.val))>>

inParens(ts) == <<item("itemOpenParen", "(")>> \o ts \o <<item("itemCloseParen", ")")>>

RECURSIVE exprToString(_)
RECURSIVE listToString(_, _, _, _)

notExprToString(expr) ==
    <<item("itemNot", "^")>> \o
        (IF expr.kids[1].op \in {"and", "or"}
         THEN inParens(exprToString(expr.kids[1]))
         ELSE exprToString(expr.kids[1]))

\* the loop of andExprToString and of orExprToString: the children from the
\* i-th on, separated by sep, a child of the kind other in parentheses
listToString(kids, i, sep, other) ==
    IF i > Len(kids) THEN <<>>
    ELSE (IF i > 1 THEN <<sep>> ELSE <<>>) \o
         (IF kids[i].op = other THEN inParens(exprToString(kids[i]))
          ELSE exprToString(kids[i])) \o
         listToString(kids, i + 1, sep, other)

andExprToString(expr) == listToString(expr.kids, 1, item("itemAnd", "&"), "or")

orExprToString(expr) == listToString(expr.kids, 1, item("itemOr", "|"), "and")

exprToString(expr) ==
    CASE expr.op = "eq" -> equalExprToString(expr)
      [] expr.op = "not" -> notExprToString(expr)
      [] expr.op = "and" -> andExprToString(expr)
      [] expr.op = "or" -> orExprToString(expr)

\* strings.Join(q.GroupBy, ", ")
RECURSIVE JoinFields(_, _)
JoinFields(fields, i) ==
    IF i > Len(fields) THEN <<>>
    ELSE (IF i > 1 THEN <<item("itemComma", ",")>> ELSE <<>>) \o
         <<item("itemField", fields[i])>> \o JoinFields(fields, i + 1)

QueryToString(q) ==
    exprToString(q.Expr) \o
        (IF Len(q.GroupBy) > 0
         THEN <<item("itemSemicolon", ";")>> \o JoinFields(q.GroupBy, 1)
         ELSE <<>>)

\* the texts to format: expressions of up to MaxNest lexemes, alone or with
\* a group-by list
ExprLexemes == {"cmp", "&", "|", "^", "(", ")"}

ExprTexts == UNION {[1..n -> ExprLexemes] : n \in 1..MaxNest}

FieldLists == {<<>>, <<";", "fld">>, <<";", "fld", ",", "fld">>}

\* ParseQuery of text, QueryToString of its query, and ParseQuery of that
DoQueryToString ==
    /\ lastOp.op = "none"
    /\ \E text \in ExprTexts, fl \in FieldLists :
          \E r \in {ParseQuery(text \o fl)} :
             /\ r.err = "nil"
             /\ \E str \in {QueryToString(r.pq)} :
                   \E r2 \in {parse(str)} :
                      lastOp' = [op |-> "QueryToString", text |-> text \o fl, pq |-> r.pq,
                                 str |-> str, pq2 |-> r2.pq, err |-> r2.err]
    /\ UNCHANGED <<cache, ParserOthers>>

NextFormat ==
    \/ DoQueryToString
    \/ ParserReturn

SpecFormat == InitParser /\ [][NextFormat]_vars

\* C21: for every text ParseQuery accepts, the parse of the formatted query
\* is the query again.
C21_ParseFormatParse ==
    lastOp.op = "QueryToString" => (lastOp.err = "nil" /\ lastOp.pq2 = lastOp.pq)

----------------------------------------------------------------------------
(* SpecGetters: one store, opened with the on-demand getter and with
   WithPreloadedData, and the same query on both *)

\* the stores the two builders have written
WrittenStores == {st \in {db, bw.db} : st.has}

\* Execute(q) on the index of store st opened with the getter preload chooses
ExecuteWith(st, preload, q) ==
    CHOOSE out \in
        {IF o.status # "ok"
         THEN [status |-> o.status, err |-> "nil", panic |-> FALSE, Count |-> 0, Groups |-> <<>>]
         ELSE CHOOSE o2 \in {[status |-> "ok", err |-> r.err, panic |-> r.panic,
                              Count |-> r.Count, Groups |-> r.Groups]
                             : r \in {Execute(o.idx, q, nullCache)}} : TRUE
         : o \in {OpenIndexFromBoltDatabase(st, preload)}} : TRUE

\* the caller opens a written store both ways and executes q on both
ExecuteBoth(q) ==
    /\ lastOp.op # "ExecuteBoth"
    /\ \E st \in WrittenStores :
          lastOp' = [op |-> "ExecuteBoth", q |-> q, big |-> (st = bw.db /\ bw.state = "flushed"),
                     onDemand |-> ExecuteWith(st, FALSE, q),
                     preloaded |-> ExecuteWith(st, TRUE, q)]
    /\ UNCHANGED <<cache, rows, w, bw, db, idx, xxhZero, drv, wr, thr, mtx, closes>>

\* the caller has compared the Results and is ready for its next call
TakeBoth ==
    /\ lastOp.op = "ExecuteBoth"
    /\ lastOp' = NoOp
    /\ UNCHANGED <<cache, rows, w, bw, db, idx, xxhZero, drv, wr, thr, mtx, closes>>

NextGetters ==
    \/ \E row \in RowChoices : BuildAddRow(row)
    \/ WriteIndex
    \/ BuildFlush
    \/ \E q \in Queries : ExecuteBoth(q)
    \/ TakeBoth

SpecGetters == InitBuild /\ [][NextGetters]_vars

\* C22: on every store a builder has written, and for every query, the
\* index with the on-demand getter and the index with the preloaded getter
\* return the same error or the same Result: Count and Groups in order.
C22_GettersAgree ==
    lastOp.op = "ExecuteBoth" => lastOp.onDemand = lastOp.preloaded

\* a grouped query with matches, on a store BigIndexWriter.Flush wrote
C22_Witness ==
    /\ lastOp.op = "ExecuteBoth"
    /\ lastOp.big
    /\ lastOp.onDemand.status = "ok"
    /\ lastOp.onDemand.err = "nil"
    /\ lastOp.preloaded.Count = 2
    /\ Len(lastOp.preloaded.Groups) = 2

----------------------------------------------------------------------------
(* SpecKeys: the cache keys of expressions and of their reorderings *)

MaxList == 3

\* child lists of up to MaxList leaves, and one level of nesting over them
KeyLists == UNION {[1..n -> Leaves] : n \in 1..MaxList}

KeyFlat == {And(es) : es \in KeyLists} \cup {Or(es) : es \in KeyLists}

KeyNested ==
    {Not(And(<<es[1], Or(es)>>)) : es \in KeyLists}
        \cup {Or(<<And(es), Not(es[1]), Eq("d", V10)>>) : es \in KeyLists}

KeyExprs == Leaves \cup KeyFlat \cup KeyNested

\* the permutations of 1..n
ListOrders(n) == {f \in [1..n -> 1..n] : \A i, j \in 1..n : f[i] = f[j] => i = j}

\* the expressions that differ from e only by the order of the children of
\* And and Or nodes, at any depth
RECURSIVE Reorderings(_)
RECURSIVE ReorderedLists(_, _)
Reorderings(e) ==
    IF e.op = "eq" THEN {e}
    ELSE IF e.op = "not" THEN {[e EXCEPT !.kids = c] : c \in ReorderedLists(e.kids, 1)}
    ELSE {[e EXCEPT !.kids = [i \in 1..Len(e.kids) |-> c[f[i]]]] :
              c \in ReorderedLists(e.kids, 1), f \in ListOrders(Len(e.kids))}

\* the child lists from the i-th child on, each child reordered within
ReorderedLists(kids, i) ==
    IF i > Len(kids) THEN {<<>>}
    ELSE {<<c>> \o rest : c \in Reorderings(kids[i]), rest \in ReorderedLists(kids, i + 1)}

\* cacheKey of an expression and of a reordering of it
DoCacheKey ==
    /\ lastOp.op = "none"
    /\ \E e \in KeyExprs :
          \E e2 \in Reorderings(e) :
             lastOp' = [op |-> "cacheKey", e |-> e, e2 |-> e2,
                        key |-> cacheKey(e), key2 |-> cacheKey(e2)]
    /\ UNCHANGED <<cache, rows, w, bw, db, idx, xxhZero, drv, wr, thr, mtx, closes>>

TakeKey ==
    /\ lastOp.op = "cacheKey"
    /\ lastOp' = NoOp
    /\ UNCHANGED <<cache, rows, w, bw, db, idx, xxhZero, drv, wr, thr, mtx, closes>>

NextKeyCheck ==
    \/ DoCacheKey
    \/ TakeKey

SpecKeys == InitBuild /\ [][NextKeyCheck]_vars

\* C23: two expressions that differ only by the order of the children of
\* And and Or nodes, at any depth, have the same cacheKey.
C23_KeyOrderFree ==
    lastOp.op = "cacheKey" => lastOp.key = lastOp.key2

\* a nested expression whose children are reordered at two depths
C23_Witness ==
    /\ lastOp.op = "cacheKey"
    /\ lastOp.e.op = "or"
    /\ Len(lastOp.e.kids) = 3
    /\ lastOp.e.kids[1].op = "and"
    /\ lastOp.e2.kids[1] # lastOp.e.kids[1]
    /\ lastOp.e2.kids[3].op = "and"
    /\ lastOp.e2.kids[3] # lastOp.e.kids[1]
    /\ lastOp.key = lastOp.key2

----------------------------------------------------------------------------
(* SpecHit: queries one after the other on an index with an LRUCache *)

HitCacheSizes == {50, 100, 1000}

HitQueries ==
    {NewQuery(e, <<>>) : e \in {X, And(<<X, Y>>), And(<<Y, X>>), Or(<<X, Y>>), Not(And(<<Y, X>>))}}
        \cup {NewQuery(Y, <<"a">>)}

\* an index of the sample rows, opened with WithCache(NewLRUCache(m))
InitHit ==
    /\ cache \in {NewLRUCache(m) : m \in HitCacheSizes}
    /\ lastOp = NoOp
    /\ xxhZero = NoPair
    /\ drv = NoDriver
    /\ rows = SampleRows
    /\ w = WriterOf(rows, Len(rows))
    /\ bw = NewBigIndexWriter
    /\ db = WriteToBoltDatabase(w, EmptyStore)
    /\ wr = IdleWrite
    /\ idx = OpenIndexFromBoltDatabase(db, FALSE).idx
    /\ thr = <<>>
    /\ mtx = NoLocks
    /\ closes = 0

\* Index.Execute(q): the calls it made, and the query of the Execute before
HitExecute ==
    /\ \E q \in HitQueries :
          \E r \in {Execute(idx, q, cache)} :
             /\ cache' = r.cache
             /\ lastOp' = [op |-> "Execute", q |-> q, err |-> r.err, panic |-> r.panic,
                           Count |-> r.Count, Groups |-> r.Groups, log |-> r.log,
                           prev |-> IF lastOp.op = "Execute" THEN lastOp.q
                                    ELSE NewQuery(And(<<>>), <<>>)]
    /\ UNCHANGED <<rows, w, bw, db, idx, xxhZero, drv, wr, thr, mtx, closes>>

NextHit == HitExecute

SpecHit == InitHit /\ [][NextHit]_vars

\* the nodes of an expression
RECURSIVE Nodes(_)
Nodes(e) == {e} \cup UNION {Nodes(e.kids[i]) : i \in 1..Len(e.kids)}

RECURSIVE SumSizes(_, _)
SumSizes(es, ix) ==
    IF es = {} THEN 0
    ELSE LET e == CHOOSE x \in es : TRUE
         IN GetSizeInBytes(eval(e, ix, nullCache).bm) + lruCacheItemSize + listElementSize
                + SumSizes(es \ {e}, ix)

\* the cache is large enough for the bitmaps of all nodes of e
HoldsAll(e) == SumSizes(Nodes(e), idx) <= cache.maxSize

\* C24: with an LRUCache that holds all intermediate bitmaps, Execute of
\* And[Eq(b,2), Eq(a,1)] right after Execute of And[Eq(a,1), Eq(b,2)] makes
\* one cache lookup, a hit, and no GetCol and no Put.
C24_ReorderedHit ==
    (/\ lastOp.op = "Execute"
     /\ lastOp.prev = NewQuery(And(<<X, Y>>), <<>>)
     /\ lastOp.q = NewQuery(And(<<Y, X>>), <<>>)
     /\ HoldsAll(lastOp.q.Expr))
        => lastOp.log = <<"hit">>

C24_Witness ==
    /\ lastOp.op = "Execute"
    /\ lastOp.prev = NewQuery(And(<<X, Y>>), <<>>)
    /\ lastOp.q = NewQuery(And(<<Y, X>>), <<>>)
    /\ HoldsAll(lastOp.q.Expr)
    /\ lastOp.log = <<"hit">>
    /\ lastOp.Count = 1
    /\ Len(cache.lruList) >= 3

----------------------------------------------------------------------------
(* SpecOpen: OpenIndexFromBoltDatabase on stores as a writer left them and
   on malformed ones *)

RowSeqs == UNION {[1..n -> RowChoices] : n \in 0..MaxRows}

\* what is wrong with a store: the bucket "data" is not there, the key S or
\* I is not there, the item of S is cut short, the item of I has n < 4 bytes
Damages ==
    {<<k, 0>> : k \in {"none", "noBucket", "noS", "shortS", "noI"}}
        \cup {<<"shortI", n>> : n \in 0..3}

Damaged(store, dmg) ==
    CASE dmg[1] = "none" -> store
      [] dmg[1] = "noBucket" -> EmptyStore
      [] dmg[1] = "noS" -> [store EXCEPT !.kv = MapDelete(store.kv, keySchema)]
      [] dmg[1] = "shortS" -> BucketPut(store, keySchema, [cut |-> TRUE])
      [] dmg[1] = "noI" -> [store EXCEPT !.kv = MapDelete(store.kv, keyNextRowID)]
      [] dmg[1] = "shortI" ->
            BucketPut(store, keyNextRowID, SubSeq(store.kv[keyNextRowID], 1, dmg[2]))

InitOpen ==
    /\ cache = nullCache
    /\ lastOp = NoOp
    /\ xxhZero = NoPair
    /\ drv = NoDriver
    /\ rows \in RowSeqs
    /\ w = WriterOf(rows, Len(rows))
    /\ bw = NewBigIndexWriter
    /\ db \in {Damaged(WriteToBoltDatabase(w, EmptyStore), dmg) : dmg \in Damages}
    /\ wr = IdleWrite
    /\ idx = NoIndex
    /\ thr = <<>>
    /\ mtx = NoLocks
    /\ closes = 0

\* OpenIndexFromBoltDatabase(db, opts...): an error, a run-time panic, or
\* the index
DoOpenIndex(preload) ==
    /\ lastOp.op = "none"
    /\ idx.getter = "none"
    /\ \E r \in {OpenIndexFromBoltDatabase(db, preload)} :
          /\ lastOp' = [op |-> "OpenIndex", preload |-> preload, status |-> r.status]
          /\ idx' = r.idx
    /\ UNCHANGED <<cache, rows, w, bw, db, xxhZero, drv, wr, thr, mtx, closes>>

\* the caller drops the index or the error
OpenReturn ==
    /\ lastOp.op = "OpenIndex"
    /\ lastOp' = NoOp
    /\ idx' = NoIndex
    /\ UNCHANGED <<cache, rows, w, bw, db, xxhZero, drv, wr, thr, mtx, closes>>

NextOpen ==
    \/ \E preload \in BOOLEAN : DoOpenIndex(preload)
    \/ OpenReturn

SpecOpen == InitOpen /\ [][NextOpen]_vars

Malformed(store) ==
    \/ ~store.has
    \/ keySchema \notin DOMAIN store.kv
    \/ "gob" \notin DOMAIN store.kv[keySchema]
    \/ keyNextRowID \notin DOMAIN store.kv
    \/ Len(store.kv[keyNextRowID]) < 4

\* C25: OpenIndexFromBoltDatabase of a store without the bucket "data", or
\* whose key S or I is absent or too short, returns an error and does not
\* panic.
C25_MalformedIsError ==
    (lastOp.op = "OpenIndex" /\ Malformed(db)) => lastOp.status = "error"

----------------------------------------------------------------------------
(* SpecRows: the rows of the driver (part_009): newRows, rows.Next *)

\* statements without placeholders: an expression and a group-by list
RowsQueries ==
    {[Expr |-> e, GroupBy |-> g] :
        e \in {ProtoEq("a", V1, 0), ProtoEq("a", V2, 0), ProtoEq("b", V2, 0), ProtoEq("a", V9, 0),
               Not(ProtoEq("a", V1, 0)), Or(<<ProtoEq("a", V1, 0), ProtoEq("c", V3, 0)>>),
               And(<<ProtoEq("b", V2, 0), ProtoEq("d", V10, 0)>>)},
        g \in {<<>>, <<"a">>, <<"c">>, <<"d">>, <<"b", "a">>, <<"a", "c">>}}

\* the fields of a ResultGroup as strings
FieldValues(fields) == [i \in 1..Len(fields) |-> fields[i].Value]

\* newRows(result, groupBy): the group-by columns are groupByCols
newRows(result, groupByCols) ==
    [cols |-> Append(groupByCols, "count"),
     rows |-> IF Len(result.Groups) > 0
              THEN [i \in 1..Len(result.Groups) |->
                        [fields |-> FieldValues(result.Groups[i].Fields),
                         count |-> result.Groups[i].Count]]
              ELSE <<[fields |-> <<>>, count |-> result.Count]>>,
     idx |-> 0]

\* a driver.Value: nil until Next stores a string or an int64
NilValue == [typ |-> "nil", str |-> <<>>, int |-> 0]

\* the loop of rows.Next over the fields of the current row
RECURSIVE StoreFields(_, _, _)
StoreFields(values, fields, i) ==
    IF i > Len(fields) THEN values
    ELSE StoreFields([values EXCEPT ![i] = [typ |-> "string", str |-> fields[i], int |-> 0]],
                     fields, i + 1)

\* rows.Next(values), values of one nil per column as database/sql passes it
RowsNext(r) ==
    IF r.idx >= Len(r.rows) THEN [r |-> r, values |-> <<>>, err |-> "EOF"]
    ELSE LET cur == r.rows[r.idx + 1]
             vs == StoreFields([i \in 1..Len(r.cols) |-> NilValue], cur.fields, 1)
         IN [r |-> [r EXCEPT !.idx = @ + 1],
             values |-> [vs EXCEPT ![Len(cur.fields) + 1] =
                                      [typ |-> "int64", str |-> <<>>, int |-> cur.count]],
             err |-> "nil"]

\* rows.ColumnTypeDatabaseTypeName(index), index from 0
ColumnTypeDatabaseTypeName(r, index) == IF index < Len(r.cols) - 1 THEN "TEXT" ELSE "BIGINT"

\* fileStmt.Query without arguments: the rows, or the error
DoRowsQuery ==
    /\ lastOp.op = "none"
    /\ \E q \in RowsQueries :
          \E x \in {StmtQuery(q, <<>>, idx, cache)} :
             /\ cache' = x.cache
             /\ lastOp' = IF x.err # "nil" \/ x.panic
                          THEN [op |-> "Query", query |-> q, values |-> <<>>, err |-> x.err,
                                panic |-> x.panic, Count |-> 0]
                          ELSE [op |-> "rows", query |-> q, Count |-> x.Count, Groups |-> x.Groups,
                                rows |-> newRows(x, q.GroupBy), values |-> <<>>, err |-> "nil"]
    /\ UNCHANGED ParserOthers

\* rows.Next by database/sql
DoRowsNext ==
    /\ lastOp.op = "rows"
    /\ lastOp.err = "nil"
    /\ \E n \in {RowsNext(lastOp.rows)} :
          lastOp' = [lastOp EXCEPT !.rows = n.r, !.values = n.values, !.err = n.err]
    /\ UNCHANGED <<cache, ParserOthers>>

\* rows.Close
DoRowsClose ==
    /\ lastOp.op \in {"rows", "Query"}
    /\ lastOp' = NoOp
    /\ UNCHANGED <<cache, ParserOthers>>

NextRows ==
    \/ DoRowsQuery
    \/ DoRowsNext
    \/ DoRowsClose

SpecRows == InitParser /\ [][NextRows]_vars

\* Next has delivered a row
Delivered == lastOp.op = "rows" /\ lastOp.rows.idx > 0 /\ lastOp.err = "nil"

\* C26: every row that rows.Next delivers has one value per column: a
\* string in each TEXT column (the group's fields) and the int64 count in
\* the BIGINT column, the last, also when no group matched.
C26_RowShape ==
    Delivered =>
        /\ Len(lastOp.values) = Len(lastOp.rows.cols)
        /\ \A i \in 1..Len(lastOp.values) :
              lastOp.values[i].typ =
                  (IF ColumnTypeDatabaseTypeName(lastOp.rows, i - 1) = "TEXT"
                   THEN "string" ELSE "int64")
        /\ lastOp.values[Len(lastOp.values)].int = lastOp.rows.rows[lastOp.rows.idx].count

----------------------------------------------------------------------------
(* The lexer of walk.go on the bytes of a text, and SpecValue: formatString
   and the way back *)

MaxValueLen == 3

\* the bytes the strings are made of: `"`, a letter, a blank and the two
\* bytes of a non-ASCII rune
ValueBytes == {34, 97, 32, 195, 169}

ValueStrings == UNION {[1..n -> ValueBytes] : n \in 0..MaxValueLen}

FieldStart == (97..122) \cup (65..90)
FieldRune == FieldStart \cup (48..57) \cup {95}
Blank == {32, 10, 13, 9}

\* l.acceptRun(valid) from position p: the position of the first byte that
\* is not in valid
RECURSIVE acceptRun(_, _, _)
acceptRun(input, p, valid) ==
    IF p <= Len(input) /\ input[p] \in valid THEN acceptRun(input, p + 1, valid) ELSE p

\* the loop of lexValue from position p, after the opening quote: where it
\* stops and whether it has seen the final quote
RECURSIVE scanValue(_, _)
scanValue(input, p) ==
    IF p > Len(input) THEN [pos |-> p, seenFinalQuote |-> FALSE]
    ELSE IF input[p] # 34 THEN scanValue(input, p + 1)
    ELSE IF p + 1 <= Len(input) /\ input[p + 1] = 34 THEN scanValue(input, p + 2)
    ELSE [pos |-> p + 1, seenFinalQuote |-> TRUE]

\* the one-character tokens of lexText
Single(r) ==
    CASE r = 40 -> "itemOpenParen"
      [] r = 41 -> "itemCloseParen"
      [] r = 38 -> "itemAnd"
      [] r = 124 -> "itemOr"
      [] r = 94 -> "itemNot"
      [] r = 44 -> "itemComma"
      [] r = 59 -> "itemSemicolon"
      [] r = 61 -> "itemEqual"
      [] OTHER -> "none"

\* lexer.run from position p with l.start = start: the items sent, in order.
\* An error item is the last item: the lexer sends no itemEOF after it.
RECURSIVE lexerRun(_, _, _)
lexerRun(input, p, start) ==
    IF p > Len(input) THEN <<item("itemEOF", SubSeq(input, start, Len(input)))>>
    ELSE LET r == input[p]
         IN IF r \in Blank
            THEN LET q == acceptRun(input, p, Blank) IN lexerRun(input, q, q)
            ELSE IF Single(r) # "none"
            THEN <<item(Single(r), SubSeq(input, start, p))>> \o lexerRun(input, p + 1, p + 1)
            ELSE IF r \in FieldStart
            THEN LET q == acceptRun(input, p, FieldRune)
                 IN <<item("itemField", SubSeq(input, start, q - 1))>> \o lexerRun(input, q, q)
            ELSE IF r = 34
            THEN LET v == scanValue(input, p + 1)
                 IN IF v.seenFinalQuote
                    THEN <<item("itemValue", SubSeq(input, start, v.pos - 1))>>
                            \o lexerRun(input, v.pos, v.pos)
                    ELSE lexerRun(input, v.pos, start)
            ELSE <<item("itemError", <<>>)>>

\* formatString(s), the text lexed, and decodeString of its first item
DoFormatString ==
    /\ lastOp.op = "none"
    /\ \E s \in ValueStrings :
          \E text \in {formatString(s)} :
             \E items \in {lexerRun(text, 1, 1)} :
                lastOp' = [op |-> "formatString", s |-> s, text |-> text, items |-> items,
                           decoded |-> decodeString(items[1].val)]
    /\ UNCHANGED <<cache, ParserOthers>>

NextValue ==
    \/ DoFormatString
    \/ ParserReturn

SpecValue == InitParser /\ [][NextValue]_vars

\* C31: the text formatString(s) is lexed as exactly one value item (and the
\* end of the text), and decodeString of the item is s byte for byte.
C31_FormatDecode ==
    lastOp.op = "formatString" =>
        /\ Len(lastOp.items) = 2
        /\ lastOp.items[1].typ = "itemValue"
        /\ lastOp.items[1].val = lastOp.text
        /\ lastOp.items[2].typ = "itemEOF"
        /\ lastOp.decoded = lastOp.s

\* a string with two quotes in a row next to a non-ASCII byte
C31_Witness ==
    /\ lastOp.op = "formatString"
    /\ Len(lastOp.s) = 3
    /\ lastOp.s[1] = 34
    /\ lastOp.s[2] = 34
    /\ lastOp.s[3] = 195
    /\ lastOp.decoded = lastOp.s

----------------------------------------------------------------------------
(* SpecRepeat: one Query object handed to Execute again and again *)

MaxRepeat == 3

\* Index.Execute(q) of a new Query, the first call with this object
RepeatFirst ==
    /\ lastOp.op = "none"
    /\ \E q \in Queries :
          \E r \in {Execute(idx, q, cache)} :
             /\ cache' = r.cache
             /\ lastOp' = [op |-> "Execute", q |-> q, given |-> q, err |-> r.err, panic |-> r.panic,
                           Count |-> r.Count, Groups |-> r.Groups, after |-> r.q,
                           first |-> [err |-> r.err, Count |-> r.Count, Groups |-> r.Groups],
                           n |-> 1]
    /\ UNCHANGED ParserOthers

\* Index.Execute(q) with the object of the call before
RepeatAgain ==
    /\ lastOp.op = "Execute"
    /\ lastOp.n < MaxRepeat
    /\ \E r \in {Execute(idx, lastOp.after, cache)} :
          /\ cache' = r.cache
          /\ lastOp' = [lastOp EXCEPT !.given = lastOp.after, !.err = r.err, !.panic = r.panic,
                                      !.Count = r.Count, !.Groups = r.Groups, !.after = r.q,
                                      !.n = @ + 1]
    /\ UNCHANGED ParserOthers

\* the caller drops the object
RepeatDrop ==
    /\ lastOp.op = "Execute"
    /\ lastOp' = NoOp
    /\ UNCHANGED <<cache, ParserOthers>>

NextRepeat ==
    \/ RepeatFirst
    \/ RepeatAgain
    \/ RepeatDrop

SpecRepeat == InitParser /\ [][NextRepeat]_vars

\* C32: every Execute of one Query object on the unchanged index returns the
\* Result of the first (same error, Count, Groups and Fields) and leaves the
\* Query as it was given.
C32_Repeatable ==
    lastOp.op = "Execute" =>
        /\ lastOp.err = lastOp.first.err
        /\ lastOp.Count = lastOp.first.Count
        /\ lastOp.Groups = lastOp.first.Groups
        /\ lastOp.after = lastOp.given

\* C32 for queries without a group-by list
C32_RepeatableUngrouped ==
    (lastOp.op = "Execute" /\ lastOp.q.GroupBy = <<>>) => C32_Repeatable

\* a query without group-by was executed three times
C32_Reached ==
    /\ lastOp.op = "Execute"
    /\ lastOp.q.GroupBy = <<>>
    /\ lastOp.n = 3
    /\ lastOp.Count > 0

----------------------------------------------------------------------------
(* SpecOdd: the cache keys of And and Or nodes with repeated children *)

MaxOdd == 3

OddKids == Leaves \cup {Not(X), And(<<X, Y>>)}

OddLists == UNION {[1..n -> OddKids] : n \in 1..MaxOdd}

\* the children that occur an odd number of times in es, once each, in the
\* order of their first occurrence
OddOnes(es) ==
    LET keep == {i \in 1..Len(es) :
                    /\ \A j \in 1..(i - 1) : es[j] # es[i]
                    /\ Cardinality({j \in 1..Len(es) : es[j] = es[i]}) % 2 = 1}
    IN [k \in 1..Cardinality(keep) |->
            es[CHOOSE i \in keep : Cardinality({j \in keep : j <= i}) = k]]

Node(op, es) == IF op = "and" THEN And(es) ELSE Or(es)

\* cacheKey and eval of a node, of the node of its odd children, and of the
\* node with every child twice
DoOddKey ==
    /\ lastOp.op = "none"
    /\ \E op \in {"and", "or"}, es \in OddLists :
          lastOp' = [op |-> "oddKey", node |-> op, es |-> es, odd |-> OddOnes(es),
                     key |-> cacheKey(Node(op, es)),
                     keyOdd |-> cacheKey(Node(op, OddOnes(es))),
                     keyTwice |-> cacheKey(Node(op, es \o es)),
                     bm |-> eval(Node(op, es), idx, nullCache).bm,
                     bmOdd |-> eval(Node(op, OddOnes(es)), idx, nullCache).bm]
    /\ UNCHANGED <<cache, ParserOthers>>

TakeOddKey ==
    /\ lastOp.op = "oddKey"
    /\ lastOp' = NoOp
    /\ UNCHANGED <<cache, ParserOthers>>

NextOdd ==
    \/ DoOddKey
    \/ TakeOddKey

SpecOdd == InitParser /\ [][NextOdd]_vars

\* C33: the cacheKey of an And (Or) node is that of the And (Or) of the
\* children that occur an odd number of times; with every child twice it is
\* maskAnd (maskOr), and And[x, x, y] has the key of And[y].
C33_OddChildrenOnly ==
    lastOp.op = "oddKey" =>
        /\ lastOp.key = lastOp.keyOdd
        /\ lastOp.keyTwice = (IF lastOp.node = "and" THEN maskAnd ELSE maskOr)
        /\ lastOp.odd = <<>> => lastOp.key = (IF lastOp.node = "and" THEN maskAnd ELSE maskOr)

\* And[x, x, y] has the key of And[y] and another bitmap
C33_Witness ==
    /\ lastOp.op = "oddKey"
    /\ lastOp.node = "and"
    /\ Len(lastOp.es) = 3
    /\ lastOp.es[1] = lastOp.es[2]
    /\ Len(lastOp.odd) = 1
    /\ lastOp.key = lastOp.keyOdd
    /\ lastOp.bm # lastOp.bmOdd

----------------------------------------------------------------------------
(* BigIndexWriter.Flush over the scratch keys (SpecBuild) *)

\* the postings by code of the store of the BigIndexWriter
BigPostings ==
    LET codes == {key[2] : key \in {x \in DOMAIN bw.db.kv : x[1] = "V"}}
    IN [code \in codes |-> FromBuffer(BucketGet(bw.db, ValueKey(code))).bm]

\* Flush has been called with scratch keys
Flushed == bw.state # "open" /\ bw.tempTx # {}

\* C34: for any non-empty set of scratch keys, also when the smallest code
\* is 0, Flush ends without fault and writes exactly one posting per
\* distinct code, holding exactly the row ids of that code.
C34_FlushNoFault ==
    Flushed =>
        /\ bw.state = "flushed"
        /\ DOMAIN BigPostings = {k[1] : k \in bw.tempTx}
        /\ \A code \in DOMAIN BigPostings :
                BigPostings[code] = {k[2] : k \in {x \in bw.tempTx : x[1] = code}}

\* C34 when no scratch key has the code 0
C34_FlushNoFaultNonZero ==
    (\A k \in bw.tempTx : k[1] # {}) => C34_FlushNoFault

\* Flush has written the postings of two rows, no code being 0
C34_Reached ==
    /\ bw.state = "flushed"
    /\ Len(rows) = 2
    /\ Cardinality(DOMAIN BigPostings) >= 4

----------------------------------------------------------------------------
(* SpecFault: BigIndexWriter.AddRow when the scratch store fails *)

\* a BigIndexWriter after the first n rows of the stream, n at most
\* tempCommitEvery: nothing has been committed to the scratch store yet
BigWriterAt(n) ==
    [NewBigIndexWriter EXCEPT
        !.schema = IF n = 0 THEN EmptySchema
                   ELSE ("a" :> [v \in {Itoa(i) : i \in 0..(n - 1)} |-> getValueIndex("a", v)]),
        !.tempTx = {<<getValueIndex("a", Itoa(i)), i>> : i \in 0..(n - 1)},
        !.nextRowID = n]

InitFault ==
    /\ cache = nullCache
    /\ lastOp = NoOp
    /\ xxhZero = NoPair
    /\ drv = NoDriver
    /\ rows = <<>>
    /\ w = NewIndexWriter
    /\ bw \in {BigWriterAt(0), BigWriterAt(tempCommitEvery)}
    /\ db = EmptyStore
    /\ wr = IdleWrite
    /\ idx = NoIndex
    /\ thr = <<>>
    /\ mtx = NoLocks
    /\ closes = 0

FaultOthers == <<cache, xxhZero, drv, w, db, wr, idx, thr, mtx, closes>>

\* the writer takes at most MaxRows calls
MayAddRow == bw.state = "open" /\ bw.nextRowID % tempCommitEvery < MaxRows

\* the row id is at a scratch commit
AtCommit(b) == b.nextRowID > 0 /\ b.nextRowID % tempCommitEvery = 0

CallOf(row, err) == [op |-> "AddRow", row |-> row, err |-> err, before |-> bw]

\* AddRow returns the row id
FaultAddRow(row) ==
    /\ MayAddRow
    /\ bw' = BigAddRow(bw, row)
    /\ rows' = Append(rows, row)
    /\ lastOp' = CallOf(row, "nil")
    /\ UNCHANGED FaultOthers

\* AddRow returns the error of bucket.Put for column k, after the Puts for
\* the columns done (the order of a range over a map is any order); the
\* deferred func increments nextRowID
FaultPut(row) ==
    /\ MayAddRow
    /\ \E k \in DOMAIN row :
          \E done \in SUBSET (DOMAIN row \ {k}) :
             LET b == BigAddCols(bw, row, done, bw.nextRowID)
             IN bw' = [b EXCEPT !.schema = SchemaAdd(b.schema, k, row[k]).sch,
                                !.nextRowID = bw.nextRowID + 1]
    /\ lastOp' = CallOf(row, "put failed")
    /\ UNCHANGED <<rows, FaultOthers>>

\* AddRow returns the error of tempTx.Commit: the keys of the transaction
\* are written or not, and the writer is left with the closed transaction
FaultCommit(row) ==
    /\ MayAddRow
    /\ AtCommit(bw)
    /\ LET b == BigAddCols(bw, row, DOMAIN row, bw.nextRowID)
       IN \E kept \in {b.tempTx, bw.temp} :
             bw' = [b EXCEPT !.tempTx = kept, !.nextRowID = bw.nextRowID + 1, !.state = "broken"]
    /\ lastOp' = CallOf(row, "failed to commit")
    /\ UNCHANGED <<rows, FaultOthers>>

\* AddRow returns the error of tempDB.Begin after the Commit: the writer is
\* left with a nil transaction
FaultBegin(row) ==
    /\ MayAddRow
    /\ AtCommit(bw)
    /\ LET b == BigAddCols(bw, row, DOMAIN row, bw.nextRowID)
       IN bw' = [b EXCEPT !.temp = b.tempTx, !.nextRowID = bw.nextRowID + 1, !.state = "broken"]
    /\ lastOp' = CallOf(row, "failed to start new transaction")
    /\ UNCHANGED <<rows, FaultOthers>>

NextFault ==
    \/ \E row \in RowChoices : FaultAddRow(row)
    \/ \E row \in RowChoices : FaultPut(row)
    \/ \E row \in RowChoices : FaultCommit(row)
    \/ \E row \in RowChoices : FaultBegin(row)

SpecFault == InitFault /\ [][NextFault]_vars

\* C35: when AddRow returns an error, nextRowID is what it was before the
\* call and no scratch key of the failed row remains.
C35_FailedAddRowNoEffect ==
    (lastOp.op = "AddRow" /\ lastOp.err # "nil") =>
        /\ bw.nextRowID = lastOp.before.nextRowID
        /\ \A k \in bw.tempTx \cup bw.temp : k[2] # lastOp.before.nextRowID

----------------------------------------------------------------------------
(* SpecWriteErr: IndexWriter.Flush, the write transaction of
   WriteToBoltDatabase and the deferred db.Close *)

ErrOthers == <<cache, xxhZero, drv, bw, idx, thr, mtx, closes>>

\* the call returns err; open: the write transaction begun is neither
\* committed nor rolled back
Returned(err, open) == [pc |-> "returned", tx |-> EmptyStore, i |-> 0, todo |-> {}, open |-> open, err |-> err]

ErrAddRow(row) ==
    /\ wr.pc = "idle"
    /\ Len(rows) < MaxRows
    /\ w' = IWAddRow(w, row)
    /\ rows' = Append(rows, row)
    /\ lastOp' = [op |-> "AddRow", rowID |-> w.nextRowID]
    /\ UNCHANGED <<db, wr, ErrOthers>>

\* db.Begin(true) fails: there is no transaction
ErrBeginFails ==
    /\ wr.pc = "idle"
    /\ wr' = Returned("failed to start new transaction", FALSE)
    /\ lastOp' = [op |-> "WriteToBoltDatabase"]
    /\ UNCHANGED <<rows, w, db, ErrOthers>>

\* db.Begin(true), then Encode, CreateBucketIfNotExists or one of the two
\* bucket.Put returns an error, which WriteToBoltDatabase returns
ErrHeadFails ==
    /\ wr.pc = "idle"
    /\ wr' = Returned("error before the loop", TRUE)
    /\ lastOp' = [op |-> "WriteToBoltDatabase"]
    /\ UNCHANGED <<rows, w, db, ErrOthers>>

\* db.Begin(true) to the second bucket.Put, without error
ErrBegin ==
    /\ wr.pc = "idle"
    /\ LET st == WriteBegin(w, db)
       IN wr' = [pc |-> st.pc, tx |-> st.tx, i |-> st.i, todo |-> st.todo, open |-> TRUE, err |-> "nil"]
    /\ lastOp' = [op |-> "Begin"]
    /\ UNCHANGED <<rows, w, db, ErrOthers>>

\* one iteration of the loop over idx.values
ErrPut ==
    /\ wr.pc = "loop"
    /\ \E k \in NextKeys(wr.todo) :
        LET st == WritePut(w, [pc |-> wr.pc, committed |-> db, tx |-> wr.tx, i |-> wr.i, todo |-> wr.todo], k)
        IN /\ wr' = [wr EXCEPT !.tx = st.tx, !.i = st.i, !.todo = st.todo]
           /\ db' = st.committed
    /\ lastOp' = [op |-> "Put"]
    /\ UNCHANGED <<rows, w, ErrOthers>>

\* ToBytes or bucket.Put returns an error in the loop, which
\* WriteToBoltDatabase returns
ErrPutFails ==
    /\ wr.pc = "loop"
    /\ wr.todo # {}
    /\ wr' = Returned("error in the loop", TRUE)
    /\ lastOp' = [op |-> "WriteToBoltDatabase"]
    /\ UNCHANGED <<rows, w, db, ErrOthers>>

\* the tx.Commit after the loop; a Commit that fails rolls back
ErrCommit(ok) ==
    /\ wr.pc = "loop"
    /\ wr.todo = {}
    /\ wr' = Returned(IF ok THEN "nil" ELSE "failed to commit transaction", FALSE)
    /\ db' = IF ok THEN wr.tx ELSE db
    /\ lastOp' = [op |-> "WriteToBoltDatabase"]
    /\ UNCHANGED <<rows, w, ErrOthers>>

\* the deferred db.Close of Flush: it waits for the open transactions
ErrClose ==
    /\ wr.pc = "returned"
    /\ ~wr.open
    /\ wr' = [wr EXCEPT !.pc = "closed"]
    /\ lastOp' = [op |-> "Close"]
    /\ UNCHANGED <<rows, w, db, ErrOthers>>

NextWriteErr ==
    \/ \E row \in RowChoices : ErrAddRow(row)
    \/ ErrBeginFails
    \/ ErrHeadFails
    \/ ErrBegin
    \/ ErrPut
    \/ ErrPutFails
    \/ \E ok \in BOOLEAN : ErrCommit(ok)
    \/ ErrClose

SpecWriteErr == InitQuery /\ [][NextWriteErr]_vars

\* C36: when WriteToBoltDatabase has returned an error no write transaction
\* is left open, so the deferred db.Close can proceed.
C36_NoOpenTransaction ==
    (wr.pc = "returned" /\ wr.err # "nil") => ~wr.open

\* C36 for the errors of Begin and Commit
C36_BeginCommitErrors ==
    (wr.pc = "returned" /\ wr.err \in {"failed to start new transaction", "failed to commit transaction"})
        => ~wr.open

\* a Commit has failed and db.Close has returned
C36_Reached ==
    /\ wr.pc = "closed"
    /\ wr.err = "failed to commit transaction"
    /\ Len(rows) = 2

----------------------------------------------------------------------------
(* SpecDriver: Open and Close of the sql driver on the DSNs of one file *)

MaxOpens == 4

\* fileCacheKey.opts of the DSNs file:f and file:f?preload=true
FileKeys == {"", ";preload=true"}

DriverOthers == <<cache, xxhZero, rows, w, bw, db, wr, idx, thr, mtx, closes>>

\* fileConn.IsValid; idx 0 is the nil *Index
IsValid(c) == c.idx # 0 /\ c.refs >= 1

\* the connection can be queried: IsValid, and its Index is not closed
Usable(d, c) == IsValid(d.conns[c]) /\ d.indexes[d.conns[c].idx] = "open"

\* updogDriver.openFile with a OpenIndex that succeeds
openFile(d, key) ==
    IF key \in DOMAIN d.fileConnCache
    THEN LET c == d.fileConnCache[key]
         IN [drv |-> [d EXCEPT !.conns[c].refs = @ + 1], conn |-> c]
    ELSE LET c == Len(d.conns) + 1
         IN [drv |-> [d EXCEPT !.indexes = Append(@, "open"),
                               !.conns = Append(@, [idx |-> Len(d.indexes) + 1, refs |-> 1]),
                               !.fileConnCache = MapPut(@, key, c)],
             conn |-> c]

\* fileConn.Close; idx.Close() on the nil *Index reads idx.db
fileConnClose(d, c) ==
    LET refs == d.conns[c].refs - 1
        i == d.conns[c].idx
    IN IF refs <= 0
       THEN [drv |-> [d EXCEPT !.conns[c].refs = refs,
                               !.conns[c].idx = 0,
                               !.indexes = IF i = 0 THEN @ ELSE [@ EXCEPT ![i] = "closed"]],
             closed |-> i, panic |-> i = 0]
       ELSE [drv |-> [d EXCEPT !.conns[c].refs = refs], closed |-> 0, panic |-> FALSE]

\* Open(name); ok: OpenIndex succeeds when it is called
DoOpen(key, ok) ==
    /\ drv.opens < MaxOpens
    /\ IF ok \/ key \in DOMAIN drv.fileConnCache
       THEN LET r == openFile(drv, key)
            IN /\ drv' = [r.drv EXCEPT !.held = Append(@, r.conn), !.opens = @ + 1]
               /\ lastOp' = [op |-> "Open", key |-> key, err |-> "nil", conn |-> r.conn,
                             valid |-> IsValid(r.drv.conns[r.conn])]
       ELSE /\ drv' = [drv EXCEPT !.opens = @ + 1]
            /\ lastOp' = [op |-> "Open", key |-> key, err |-> "couldn't open index file", conn |-> 0,
                          valid |-> FALSE]
    /\ UNCHANGED DriverOthers

\* Close of the h-th connection the callers hold
DoConnClose(h) ==
    /\ h \in 1..Len(drv.held)
    /\ LET c == drv.held[h]
           r == fileConnClose(drv, c)
       IN /\ drv' = [r.drv EXCEPT !.held = SeqRemoveAt(@, h)]
          /\ lastOp' = [op |-> "Close", conn |-> c, refs |-> r.drv.conns[c].refs,
                        closed |-> r.closed, panic |-> r.panic]
    /\ UNCHANGED DriverOthers

NextDriver ==
    \/ \E key \in FileKeys, ok \in BOOLEAN : DoOpen(key, ok)
    \/ \E h \in 1..MaxOpens : DoConnClose(h)

SpecDriver == InitParser /\ [][NextDriver]_vars

\* C37: every connection returned by Open and not yet closed is usable, an
\* Open after the last Close of a key included, and Close closes the index
\* only when the reference count has reached 0.
C37_OpenedUsable ==
    /\ \A h \in 1..Len(drv.held) : Usable(drv, drv.held[h])
    /\ (lastOp.op = "Open" /\ lastOp.err = "nil") => lastOp.valid
    /\ (lastOp.op = "Close" /\ lastOp.closed # 0) => lastOp.refs = 0

\* C37 without the Open after the last Close: the connections of a key
\* whose count never went to 0 are usable, and the index is closed at 0 only
C37_ClosedAtZero ==
    /\ \A h \in 1..Len(drv.held) :
            drv.conns[drv.held[h]].idx # 0 => Usable(drv, drv.held[h])
    /\ \A c \in 1..Len(drv.conns) :
            drv.conns[c].refs = Cardinality({h \in 1..Len(drv.held) : drv.held[h] = c})
    /\ (lastOp.op = "Close" /\ lastOp.closed # 0) => lastOp.refs = 0
    /\ \A i \in 1..Len(drv.indexes) :
            drv.indexes[i] = "open" <=> \E c \in 1..Len(drv.conns) : drv.conns[c].idx = i

\* two connections of one key are held and one has been closed: the index
\* is open
C37_Reached ==
    /\ lastOp.op = "Close"
    /\ lastOp.closed = 0
    /\ Len(drv.held) = 2
    /\ drv.held[1] = drv.held[2]
    /\ Usable(drv, drv.held[1])

----------------------------------------------------------------------------
(* SpecLex: ParseQuery and the goroutine of its lexer, which hands its items
   to the parser over the unbuffered channel l.items *)

MaxLexWords == 4

\* a, =, "1", ), & and the unknown token $
LexWords == {<<97>>, <<61>>, <<34, 49, 34>>, <<41>>, <<38>>, <<36>>}

RECURSIVE Concat(_)
Concat(ws) == IF ws = <<>> THEN <<>> ELSE Head(ws) \o Concat(Tail(ws))

LexInputs == {Concat(ws) : ws \in UNION {[1..n -> LexWords] : n \in 0..MaxLexWords}}

\* the number of items parser.parse takes from the lexer with nextItem:
\* the position of the last item peeked
nextItemCalls(ts) ==
    LET r == parseExpr(ts, 1)
    IN IF ~r.ok THEN r.pos
       ELSE IF peek(ts, r.pos).typ = "itemSemicolon" THEN parseFieldList(ts, r.pos + 1).pos
       ELSE r.pos

LexOthers == <<cache, xxhZero, drv, rows, w, bw, db, wr, idx, mtx, closes>>

\* ParseQuery(input): newParser calls lex, which starts `go l.run()`.
\* items: what the lexer sends, calls: the nextItem calls of the parser
LexStart(input) ==
    /\ lastOp.op = "none"
    /\ LET items == lexerRun(input, 1, 1)
       IN lastOp' = [op |-> "ParseQuery", input |-> input, items |-> items,
                     calls |-> nextItemCalls(items), err |-> parse(items).err,
                     pq |-> parse(items).pq]
    /\ thr' = [lexer |-> [pc |-> "run", n |-> 0], parser |-> [pc |-> "parse", n |-> 0]]
    /\ UNCHANGED LexOthers

\* l.items <- item in emit or errorf meets <-l.items in nextItem
LexHandoff ==
    /\ lastOp.op = "ParseQuery"
    /\ thr.lexer.pc = "run"
    /\ thr.parser.pc = "parse"
    /\ thr.lexer.n < Len(lastOp.items)
    /\ thr.parser.n < lastOp.calls
    /\ thr' = [thr EXCEPT !.lexer.n = @ + 1, !.parser.n = @ + 1]
    /\ UNCHANGED <<lastOp, LexOthers>>

\* the state function returns nil after itemEOF or the error item: run ends
LexExit ==
    /\ lastOp.op = "ParseQuery"
    /\ thr.lexer.pc = "run"
    /\ thr.lexer.n = Len(lastOp.items)
    /\ thr' = [thr EXCEPT !.lexer.pc = "done"]
    /\ UNCHANGED <<lastOp, LexOthers>>

\* parse returns or panics, and ParseQuery returns
LexParsed ==
    /\ lastOp.op = "ParseQuery"
    /\ thr.parser.pc = "parse"
    /\ thr.parser.n = lastOp.calls
    /\ thr' = [thr EXCEPT !.parser.pc = "returned"]
    /\ UNCHANGED <<lastOp, LexOthers>>

NextLex ==
    \/ lastOp.op = "none" /\ \E input \in LexInputs : LexStart(input)
    \/ LexHandoff
    \/ LexExit
    \/ LexParsed

SpecLex == InitParser /\ [][NextLex]_vars

SpecLexFair == SpecLex /\ WF_vars(NextLex)

\* C38: after ParseQuery has been called its lexer goroutine terminates and
\* ParseQuery returns: neither is blocked forever on the channel.
C38_LexerTerminates ==
    (lastOp.op = "ParseQuery")
        ~> (lastOp.op = "ParseQuery" /\ thr.lexer.pc = "done" /\ thr.parser.pc = "returned")

\* ParseQuery returns: the parser never waits for an item the lexer does
\* not send
C38_ParseQueryReturns ==
    (lastOp.op = "ParseQuery") ~> (lastOp.op = "ParseQuery" /\ thr.parser.pc = "returned")

\* ParseQuery has returned and the lexer holds an item nobody will take
C38_LexerBlocked ==
    /\ lastOp.op = "ParseQuery"
    /\ thr.parser.pc = "returned"
    /\ thr.lexer.pc = "run"
    /\ thr.lexer.n < Len(lastOp.items)

\* the lexer sends what the parser takes and no more exactly when it is not
\* left blocked
C38_BlockedIffUnread ==
    (lastOp.op = "ParseQuery" /\ thr.parser.pc = "returned")
        => /\ lastOp.calls <= Len(lastOp.items)
           /\ C38_LexerBlocked <=> lastOp.calls < Len(lastOp.items)

\* a query was parsed without error and the lexer has ended
C38_Reached ==
    /\ lastOp.op = "ParseQuery"
    /\ lastOp.err = "nil"
    /\ thr.parser.pc = "returned"
    /\ thr.lexer.pc = "done"

----------------------------------------------------------------------------
(* ParseQuery and the end of the input *)

\* ParseQuery has returned a query
ReturnedQuery == lastOp.op = "ParseQuery" /\ lastOp.err = "nil"

\* C39: ParseQuery returns a query only if the whole input was consumed:
\* the item after `expr [ ; field-list ]` is itemEOF, the last item of the
\* lexer.
C39_WholeInputConsumed ==
    ReturnedQuery
        => /\ lastOp.calls = Len(lastOp.items)
           /\ lastOp.items[lastOp.calls].typ = "itemEOF"

\* the query returned is that of the items before the one parse stopped at
C39_QueryOfPrefix ==
    ReturnedQuery
        => /\ lastOp.calls <= Len(lastOp.items)
           /\ parse(SubSeq(lastOp.items, 1, lastOp.calls - 1)).pq = lastOp.pq
           /\ lastOp.items[lastOp.calls].typ
                \in {"itemEOF", "itemError", "itemCloseParen", "itemField", "itemEqual", "itemValue"}

\* a query was returned for an input that is an expression and nothing else
C39_Reached ==
    /\ ReturnedQuery
    /\ lastOp.calls = Len(lastOp.items)
    /\ lastOp.items[lastOp.calls].typ = "itemEOF"
    /\ lastOp.pq.Expr.op = "eq"
    /\ thr.parser.pc = "returned"

----------------------------------------------------------------------------
(* The key map and the recency list of the LRUCache *)

\* c.entries and c.lruList hold the same entries
MapIsList(c) ==
    /\ Cardinality(DOMAIN c.entries) = Len(c.lruList)
    /\ \A i \in 1..Len(c.lruList) :
            /\ c.lruList[i].key \in DOMAIN c.entries
            /\ c.entries[c.lruList[i].key] = c.lruList[i]
    /\ \A i, j \in 1..Len(c.lruList) : c.lruList[i].key = c.lruList[j].key => i = j

\* the step is a Get that misses
GetMisses == lastOp'.op = "Get" /\ ~lastOp'.found

\* C40: in every reachable state the key map and the recency list of the
\* LRUCache describe the same entries (each element's key maps to that
\* element, as many keys as elements, no key twice), and a Get miss changes
\* neither the map, the list order nor curSize.
C40_MapMatchesList ==
    /\ [](MapIsList(cache))
    /\ [][GetMisses => cache' = cache]_vars

\* a Get has missed a key that was put earlier and evicted since, in a cache
\* of two entries
C40_Witness ==
    /\ lastOp.op = "Get"
    /\ ~lastOp.found
    /\ \E i \in 1..Len(lastOp.uses) : lastOp.uses[i] = lastOp.key
    /\ Len(cache.lruList) = 2
    /\ MapIsList(cache)

====
